---- MODULE Spec2Model ----
(***************************************************************************)
(* A model of the slide video editor: the exporter (exportVideo), the      *)
(* subtitle chunker (splitTextIntoChunks, getChunkIndexByCharacterCount)   *)
(* and the ingestion of detected elements (generateSlideAnimations).       *)
(*                                                                         *)
(* Times are in milliseconds.  Text is a sequence of one-character         *)
(* strings.  A progress fraction p is the integer p * ProgressDen.         *)
(***************************************************************************)
EXTENDS Integers, Sequences, FiniteSets, TLC

VARIABLES
    \* ---- exportVideo: arguments and environment
    slides,          \* the Slide[] argument: records [hasAudio, audioMs]
    aspectRatio,     \* the AspectRatio argument
    targetWidth,     \* the targetWidth argument
    targetHeight,    \* the targetHeight argument
    env,             \* what the browser offers: [mediaRecorder, ctx2d, brokenDrawThrows]
    natural,         \* <<img.width, img.height>> of the image of line 44, once it settled
    \* ---- exportVideo: locals and the objects it owns
    pc,              \* where the async function is suspended
    width, height,   \* canvas.width, canvas.height (0, 0 before the canvas exists)
    canvasCreated,   \* document.createElement('canvas') has run
    audioContext,    \* "none", "running", "closed"
    recorder,        \* "none", "inactive", "recording", "stopping", "stopped"
    recorderStarts,  \* number of recorder.start() calls
    recorderStops,   \* number of recorder.stop() calls
    onstopFired,     \* the recorder's stop event has been delivered
    promise,         \* the promise exportVideo returns: "none", "pending", "resolved", "rejected"
    i,               \* the loop index of line 114, 1-based; 0 before the loop
    imgState,        \* per slide: "none", "pending", "loaded", "broken"
    sources,         \* per slide: the narration source, "none", "started", "stopped"
    elapsed,         \* now - startTime of the frame being drawn
    frames,          \* per slide: number of frames drawn
    loopEnded,       \* per slide: resolveFrame() has been called
    lastFrame,       \* the latest call of drawFrame: its slide, elapsed, progress, outcome
    \* ---- subtitle chunker
    text,            \* the script text given to splitTextIntoChunks
    maxChars,        \* the maxChars argument
    chunks,          \* a chunk list
    splitDone,       \* chunks is the result of splitTextIntoChunks(text, maxChars)
    progress,        \* the progress argument, times ProgressDen
    chunkIndex,      \* the result of getChunkIndexByCharacterCount(chunks, progress)
    lookedUp,        \* chunkIndex is such a result
    \* ---- generateSlideAnimations
    response,        \* result.elements as the detection service sent it
    stored,          \* the VisualElement[] returned
    ingested,        \* stored is the result for response
    \* ---- drawFrame on the export canvas
    canvas,          \* [aspectRatio, width, height] of the export canvas
    subtitleStyle,   \* [backgroundOpacity (percent), verticalPosition (percent)]
    includeSubtitles,\* the includeSubtitles argument
    frameSlide,      \* the slide being drawn: [audioMs, script, subtitle, visualElements]
    frameProgress,   \* progress of the last frame drawn, times ProgressDen
    ctx,             \* the settings of the 2D context after the last frame
    ops,             \* the draw operations of the last frame, each with the settings it ran under
    drawn,           \* a frame has been drawn
    \* ---- one element's animation, in the exporter and in the preview
    element,         \* a VisualElement: [animation, startTime, durationMs]
    playSlide,       \* the slide it belongs to: [hasAudio, audioMs]
    playbackProgress,\* the slide progress, times ProgressDen
    exported,        \* what drawFrame does with the element at that progress
    previewed,       \* what getAnimationStyles returns for it at that progress
    evaluated,       \* exported and previewed are such results
    \* ---- getMediaRecorderOptions
    browser,         \* [mediaRecorder, supported]: is MediaRecorder defined, the types it supports
    encoderPc,       \* "idle", "start", "loop", "returned", "thrown"
    candidate,       \* 1-based index of the loop of line 15 into preferredMimeTypes
    recorderOptions, \* the value returned: [mimeType], NULL for no mimeType
    \* ---- handleBulkGenerateScript and handleBulkGenerateAudio
    deck,            \* App's slides, by id: [present, script, hasAudio, isGeneratingAudio]
    batchKind,       \* "script" or "audio": the handler running
    targetIds,       \* the ids the handler was started for
    queue,           \* the ids its loop iterates over
    cursor,          \* 1-based position of the loop in queue
    bulkPc,          \* "idle", "start", "loop", "request", "done"
    attempts,        \* the ids a request was sent for, in order
    failed,          \* the ids whose request failed
    alerted,         \* an alert was shown
    \* ---- compressImageBase64ForApi
    imageInput,      \* the image given: [len (of its base64), width, height, loads]
    hasContext,      \* canvas.getContext('2d') returns a context
    compressPc,      \* "idle", "start", "loading", "quality", "scale", "returned", "thrown"
    scaledWidth,     \* the local width
    scaledHeight,    \* the local height
    best,            \* the length of the base64 string best
    qualityStep,     \* 1-based position of the loop of line 56 in qualitySteps
    returned,        \* the length of the base64 string returned
    rounds,          \* iterations of the while loop of line 63 so far
    \* ---- App: handleExport and handleFileUpload
    isExporting,     \* generationState.isExporting
    handlerPc,       \* handleExport: "idle", "loading", "exporting"
    uploadPc,        \* handleFileUpload: "idle", "reading"
    failureAlerts,   \* alerts shown by the handleExport call that runs or ran last
    inProgress,      \* number of exportVideo calls that have not ended
    \* ---- PreviewArea: playback of the active slide's narration
    clock,           \* audioContext.currentTime
    isPlaying,       \* the isPlaying state
    previewProgress, \* the playbackProgress state, 0..100
    pausedTimeRef,   \* pausedTimeRef.current
    startTimeRef,    \* startTimeRef.current
    sourceRef,       \* sourceRef.current is a node
    animationFrameRef, \* a call of updateLoop is requested
    audible,         \* the node of sourceRef is playing
    audioOffset,     \* the offset the latest source.start was given
    stoppedEnded,    \* 'ended' events not yet delivered, of nodes stopped or replaced
    finishedEnded,   \* the latest node played to its end, its 'ended' event is not yet delivered
    resumePoint,     \* where the narration was paused or sought to while paused; -1: nowhere
    staleDelivered,  \* an 'ended' event of a node stopped or replaced has been delivered
    \* ---- App: the slide list and the selections
    appSlides,       \* the slides state: records [id, visualElements], ids from 1
    activeSlideId,   \* the activeSlideId state; 0 is the empty string
    selectedSlideIds, \* the selectedSlideIds state
    selectedElementId, \* the selectedElementId state; 0 is null
    animSlideId,     \* slide.id in the handleAnimGen call that has not settled; 0: none
    nextSlideId,     \* the next id an uploaded slide gets
    nextElementId,   \* the next id a detected element gets
    lateResponse,    \* a detection has settled after the active slide changed
    \* ---- PreviewArea: dragging and resizing the selected element
    interactionMode, \* the interactionMode state
    startElementRect, \* the startElementRect state
    elementRect,     \* rect of the selected element, in percent
    grabs            \* number of times an element or a handle was pressed

exportVars == <<slides, aspectRatio, targetWidth, targetHeight, env, natural, pc, width, height,
                canvasCreated, audioContext, recorder, recorderStarts, recorderStops,
                onstopFired, promise, i, imgState, sources, elapsed, frames, loopEnded, lastFrame>>
textVars == <<text, maxChars, chunks, splitDone, progress, chunkIndex, lookedUp>>
animVars == <<response, stored, ingested>>
frameVars == <<canvas, subtitleStyle, includeSubtitles, frameSlide, frameProgress, ctx, ops, drawn>>
playVars == <<element, playSlide, playbackProgress, exported, previewed, evaluated>>
encoderVars == <<browser, encoderPc, candidate, recorderOptions>>
bulkVars == <<deck, batchKind, targetIds, queue, cursor, bulkPc, attempts, failed, alerted>>
compressVars == <<imageInput, hasContext, compressPc, scaledWidth, scaledHeight, best,
                  qualityStep, returned, rounds>>
appVars == <<isExporting, handlerPc, uploadPc, failureAlerts, inProgress>>
previewVars == <<clock, isPlaying, previewProgress, pausedTimeRef, startTimeRef, sourceRef,
                 animationFrameRef, audible, audioOffset, stoppedEnded, finishedEnded,
                 resumePoint, staleDelivered>>
editVars == <<appSlides, activeSlideId, selectedSlideIds, selectedElementId, animSlideId,
              nextSlideId, nextElementId, lateResponse>>
dragVars == <<interactionMode, startElementRect, elementRect, grabs>>
moreVars == <<appVars, previewVars, editVars, dragVars>>
restVars == <<frameVars, playVars, encoderVars, bulkVars, compressVars, moreVars>>
vars == <<exportVars, textVars, animVars, restVars>>

Min(a, b) == IF a <= b THEN a ELSE b
Max(a, b) == IF a >= b THEN a ELSE b

\* A value that stands for JavaScript's undefined / a missing field.
NULL == "undefined"

(***************************************************************************)
(* Bounds of the model.                                                    *)
(***************************************************************************)
MaxSlides == 2
AudioDurationsMs == {1000, 4000}
FrameGapsMs == {1000, 2500}
Targets == {<<1920, 1080>>, <<1080, 1920>>, <<1280, 720>>}
NaturalSizes == {<<0, 0>>, <<801, 601>>, <<4001, 3000>>, <<1000, 2501>>,
                 <<2149, 1001>>, <<1921, 1000>>}

(***************************************************************************)
(* types.ts                                                                *)
(***************************************************************************)
AspectRatio == {"16:9", "1:1", "9:16", "Original", "Top", "Bottom"}

NoAudioSlide == [hasAudio |-> FALSE, audioMs |-> 0]
SlideValues == {NoAudioSlide} \cup {[hasAudio |-> TRUE, audioMs |-> d] : d \in AudioDurationsMs}
SlideLists == UNION {[1..n -> SlideValues] : n \in 0..MaxSlides}

(***************************************************************************)
(* exportVideo: the canvas size, lines 34-64.                              *)
(***************************************************************************)
MaxDim == 1920
SplitWidth == 1920
SplitHeight == 1080
DefaultDurationMs == 3000

RoundDownToEven(n) == IF n % 2 = 0 THEN n ELSE n - 1

\* The pairs <<v, m>>, among the sizes of NaturalSizes, for which the double
\* product v * (1920 / m) of lines 54-56 is below the integer v * 1920 / m:
\* the quotient 1920 / 2148 is rounded down to a double, and 2148 times that
\* double is the double 1919.9999999999998.
DoubleProductBelow == {<<2148, 2148>>}

\* Lines 54-56: Math.floor(v * scale) in double arithmetic, for
\* scale = Math.min(maxDim / width, maxDim / height) = maxDim / m, m the
\* larger of width and height.
ScaledFloor(v, m) ==
    IF (v * MaxDim) % m = 0 /\ <<v, m>> \in DoubleProductBelow
    THEN (v * MaxDim) \div m - 1
    ELSE (v * MaxDim) \div m

\* Lines 50-59: the size taken from the first image, <<img.width, img.height>>.
OriginalSize(nat) ==
    LET w0 == RoundDownToEven(nat[1])
        h0 == RoundDownToEven(nat[2])
    IN  IF w0 > MaxDim \/ h0 > MaxDim
        THEN LET m == Max(w0, h0)
             IN  <<RoundDownToEven(ScaledFloor(w0, m)), RoundDownToEven(ScaledFloor(h0, m))>>
        ELSE <<w0, h0>>

isTopLayout(ar) == ar = "Top"
isBottomLayout(ar) == ar = "Bottom"
isSplitLayout(ar) == isTopLayout(ar) \/ isBottomLayout(ar)

\* Line 42: the branch that waits for the first slide's image.
AnalyzesOriginal(ar, n) == ar = "Original" /\ n > 0

CanvasSizeTargetInSplit(ar, tw, th) == <<tw, th>>

\* Lines 34-35 and 60-64: the size when the Original branch is not taken.
CanvasSize(ar, tw, th) ==
    IF isSplitLayout(ar) THEN <<SplitWidth, SplitHeight>> ELSE <<tw, th>>

(***************************************************************************)
(* exportVideo: the slide loop, lines 102-285.                             *)
(***************************************************************************)
\* Lines 130 and 134.
Duration(slide) == IF slide.hasAudio THEN slide.audioMs ELSE DefaultDurationMs

LoopContinuesOffByOne(idx, n) == idx + 1 <= n

\* Line 114: i < slides.length, for the 1-based index of the next slide.
LoopContinues(idx, n) == idx <= n

\* Lines 133-139: the source node of slide idx is created and started.
StartSource(srcs, idx, slide) ==
    IF slide.hasAudio THEN [srcs EXCEPT ![idx] = "started"] ELSE srcs

StopSourceSkipped(srcs, idx) == srcs

\* Line 282: if (source) { source.stop(); source.disconnect(); }
StopSource(srcs, idx) ==
    IF srcs[idx] = "started" THEN [srcs EXCEPT ![idx] = "stopped"] ELSE srcs

\* Line 164, ctx.drawImage(img, ...): an image whose load failed has width and
\* height 0, so the arguments are NaN; the canvas either returns without
\* drawing (the arguments are checked first) or throws InvalidStateError (the
\* image's broken state is checked first), depending on the browser.
DrawImageThrows(state) == state = "broken" /\ env.brokenDrawThrows

\* Lines 277-278.
SchedulesNextFrame(e, duration) == e < duration

\* Line 150: Math.min(Math.max(elapsed / duration, 0), 1), as a fraction.
FrameProgress(e, duration) == <<Min(Max(e, 0), duration), duration>>

\* No call of drawFrame yet.
NoFrame ==
    [slide |-> 0, elapsed |-> 0, progress |-> <<0, 1>>, scheduled |-> FALSE, threw |-> FALSE]

\* One call of drawFrame for slide idx at the elapsed time e (lines 147-279).
DrawFrame(idx, e) ==
    /\ elapsed' = e
    /\ lastFrame' = [slide |-> idx, elapsed |-> e,
                     progress |-> FrameProgress(e, Duration(slides[idx])),
                     scheduled |-> ~DrawImageThrows(imgState'[idx])
                                      /\ SchedulesNextFrame(e, Duration(slides[idx])),
                     threw |-> DrawImageThrows(imgState'[idx])]
    /\ IF DrawImageThrows(imgState'[idx])
       THEN \* the exception leaves the executor of line 102 or the animation
            \* frame callback: resolveFrame is never called
            /\ pc' = "stalled"
            /\ UNCHANGED <<frames, loopEnded>>
       ELSE /\ frames' = [frames EXCEPT ![idx] = @ + 1]
            /\ IF SchedulesNextFrame(e, Duration(slides[idx]))
               THEN pc' = "await_frame" /\ UNCHANGED loopEnded
               ELSE pc' = "frames_done" /\ loopEnded' = [loopEnded EXCEPT ![idx] = TRUE]

\* Lines 114-121: the head of the loop for slide idx, up to the await, or
\* line 284 when the loop is over.
LoopHead(idx) ==
    IF LoopContinues(idx, Len(slides))
    THEN /\ i' = idx
         /\ imgState' = [imgState EXCEPT ![idx] = "pending"]
         /\ pc' = "await_image"
         /\ UNCHANGED <<recorderStops>>
    ELSE /\ i' = idx
         /\ recorderStops' = recorderStops + 1
         /\ pc' = "await_stop"
         /\ UNCHANGED <<imgState>>

\* Lines 66-116: canvas, stream, recorder, the promise and the first loop head.
Setup(size) ==
    /\ canvasCreated' = TRUE
    /\ width' = size[1]
    /\ height' = size[2]
    /\ IF ~env.ctx2d
       THEN \* line 71
            /\ promise' = "rejected"
            /\ pc' = "done"
            /\ UNCHANGED <<audioContext, recorder, recorderStarts, recorderStops, i, imgState>>
       ELSE IF ~env.mediaRecorder
       THEN \* line 7, called from line 82, after the AudioContext of line 74
            /\ audioContext' = "running"
            /\ promise' = "rejected"
            /\ pc' = "done"
            /\ UNCHANGED <<recorder, recorderStarts, recorderStops, i, imgState>>
       ELSE /\ audioContext' = "running"
            /\ promise' = "pending"
            /\ recorderStarts' = recorderStarts + 1
            /\ recorder' = IF LoopContinues(1, Len(slides)) THEN "recording" ELSE "stopping"
            /\ LoopHead(1)

\* exportVideo is called: lines 34-49, and on to line 121 when the Original
\* branch is not taken.
ExportBegin ==
    /\ pc = "start"
    /\ IF AnalyzesOriginal(aspectRatio, Len(slides))
       THEN /\ pc' = "await_original"
            /\ UNCHANGED <<width, height, canvasCreated, audioContext, recorder,
                           recorderStarts, recorderStops, promise, i, imgState>>
       ELSE Setup(CanvasSize(aspectRatio, targetWidth, targetHeight))
    /\ UNCHANGED <<slides, aspectRatio, targetWidth, targetHeight, env, natural, onstopFired,
                   sources, elapsed, frames, loopEnded, lastFrame>>
    /\ UNCHANGED <<textVars, animVars, restVars>>

\* The image of line 44 settles (onload or onerror): lines 50-59, then setup.
OriginalImageSettles ==
    /\ pc = "await_original"
    /\ \E nat \in NaturalSizes : natural' = nat /\ Setup(OriginalSize(nat))
    /\ UNCHANGED <<slides, aspectRatio, targetWidth, targetHeight, env, onstopFired,
                   sources, elapsed, frames, loopEnded, lastFrame>>
    /\ UNCHANGED <<textVars, animVars, restVars>>

\* The image of line 118 settles: lines 122-127, then lines 130-146 and the
\* first, synchronous call of drawFrame (line 280).
ImageSettles ==
    /\ pc = "await_image"
    /\ \E ok \in BOOLEAN :
          imgState' = [imgState EXCEPT ![i] = IF ok THEN "loaded" ELSE "broken"]
    /\ sources' = StartSource(sources, i, slides[i])
    /\ DrawFrame(i, 0)
    /\ UNCHANGED <<slides, aspectRatio, targetWidth, targetHeight, env, natural, width, height,
                   canvasCreated, audioContext, recorder, recorderStarts, recorderStops,
                   onstopFired, promise, i>>
    /\ UNCHANGED <<textVars, animVars, restVars>>

\* requestAnimationFrame calls drawFrame again, the clock having advanced.
AnimationFrame ==
    /\ pc = "await_frame"
    /\ UNCHANGED imgState
    /\ \E gap \in FrameGapsMs : DrawFrame(i, elapsed + gap)
    /\ UNCHANGED <<slides, aspectRatio, targetWidth, targetHeight, env, natural, width, height,
                   canvasCreated, audioContext, recorder, recorderStarts, recorderStops,
                   onstopFired, promise, i, sources>>
    /\ UNCHANGED <<textVars, animVars, restVars>>

\* The await of line 146 resumes: line 282, then the next loop head or line 284.
FramesDone ==
    /\ pc = "frames_done"
    /\ sources' = StopSource(sources, i)
    /\ recorder' = IF LoopContinues(i + 1, Len(slides)) THEN recorder ELSE "stopping"
    /\ LoopHead(i + 1)
    /\ UNCHANGED <<slides, aspectRatio, targetWidth, targetHeight, env, natural, width, height,
                   canvasCreated, audioContext, recorderStarts, onstopFired, promise,
                   elapsed, frames, loopEnded, lastFrame>>
    /\ UNCHANGED <<textVars, animVars, restVars>>

\* recorder.onstop, lines 103-110.
RecorderOnStop ==
    /\ pc = "await_stop"
    /\ recorder = "stopping"
    /\ recorder' = "stopped"
    /\ onstopFired' = TRUE
    /\ audioContext' = IF audioContext # "closed" THEN "closed" ELSE audioContext
    /\ promise' = "resolved"
    /\ pc' = "done"
    /\ UNCHANGED <<slides, aspectRatio, targetWidth, targetHeight, env, natural, width, height,
                   canvasCreated, recorderStarts, recorderStops, i, imgState, sources,
                   elapsed, frames, loopEnded, lastFrame>>
    /\ UNCHANGED <<textVars, animVars, restVars>>

(***************************************************************************)
(* The subtitle chunker: splitTextIntoChunks and                           *)
(* getChunkIndexByCharacterCount.                                          *)
(***************************************************************************)
MaxTextLen == 6
MaxChunks == 3
ProgressDen == 100
DefaultMaxChars == 45

NewLine == "\n"
\* The characters String.prototype.trim removes, among those of TextAlphabet.
WhiteSpace == {" ", NewLine}
TextAlphabet == {"a", "b", " ", NewLine}
Texts == UNION {[1..n -> TextAlphabet] : n \in 0..MaxTextLen}
MaxCharsChoices == {DefaultMaxChars, 1, 2}

\* String.prototype.split(sep): the pieces between the occurrences of sep.
RECURSIVE SplitOn(_, _)
SplitOn(t, sep) ==
    IF \E p \in 1..Len(t) : t[p] = sep
    THEN LET p == CHOOSE q \in 1..Len(t) :
                      t[q] = sep /\ \A r \in 1..(q - 1) : t[r] # sep
         IN  <<SubSeq(t, 1, p - 1)>> \o SplitOn(SubSeq(t, p + 1, Len(t)), sep)
    ELSE <<t>>

RECURSIVE TrimStart(_)
TrimStart(t) ==
    IF t # <<>> /\ Head(t) \in WhiteSpace THEN TrimStart(Tail(t)) ELSE t

RECURSIVE TrimEnd(_)
TrimEnd(t) ==
    IF t # <<>> /\ t[Len(t)] \in WhiteSpace THEN TrimEnd(SubSeq(t, 1, Len(t) - 1)) ELSE t

\* String.prototype.trim
Trim(t) == TrimEnd(TrimStart(t))

NonEmptyLine(line) == Len(line) > 0

RECURSIVE WrapAt(_, _)
WrapAt(line, m) ==
    IF Len(line) <= m THEN <<line>>
    ELSE <<SubSeq(line, 1, m)>> \o WrapAt(SubSeq(line, m + 1, Len(line)), m)

RECURSIVE Flatten(_)
Flatten(ss) == IF ss = <<>> THEN <<>> ELSE Head(ss) \o Flatten(Tail(ss))

splitTextIntoChunksWrapping(t, m) ==
    IF t = <<>> THEN <<>>
    ELSE LET lines == SplitOn(t, NewLine)
             kept == SelectSeq([k \in DOMAIN lines |-> Trim(lines[k])], NonEmptyLine)
         IN  Flatten([k \in DOMAIN kept |-> WrapAt(kept[k], m)])

\* splitTextIntoChunks(text, maxChars), lines 290-296.
splitTextIntoChunks(t, m) ==
    IF t = <<>> THEN <<>>
    ELSE LET lines == SplitOn(t, NewLine)
         IN  SelectSeq([k \in DOMAIN lines |-> Trim(lines[k])], NonEmptyLine)

\* chunks.reduce((acc, c) => acc + c.length, 0), line 307.
RECURSIVE TotalLength(_)
TotalLength(cs) == IF cs = <<>> THEN 0 ELSE Len(Head(cs)) + TotalLength(Tail(cs))

\* The loop of lines 312-322, entered at the 0-based index k with runningCount
\* = running; runningCount >= progress * totalLength, both sides times
\* ProgressDen.
RECURSIVE WalkChunks(_, _, _, _, _)
WalkChunks(cs, k, running, p, total) ==
    IF k >= Len(cs) THEN Len(cs) - 1
    ELSE LET r == running + Len(cs[k + 1])
         IN  IF r * ProgressDen >= p * total THEN k
             ELSE WalkChunks(cs, k + 1, r, p, total)

RECURSIVE WalkChunksStrict(_, _, _, _, _)
WalkChunksStrict(cs, k, running, p, total) ==
    IF k >= Len(cs) THEN Len(cs) - 1
    ELSE LET r == running + Len(cs[k + 1])
         IN  IF r * ProgressDen > p * total THEN k
             ELSE WalkChunksStrict(cs, k + 1, r, p, total)

getChunkIndexStrict(cs, p) ==
    IF Len(cs) = 0 THEN 0
    ELSE IF p >= ProgressDen THEN Len(cs) - 1
    ELSE IF p <= 0 THEN 0
    ELSE WalkChunksStrict(cs, 0, 0, p, TotalLength(cs))

getChunkIndexNoEmptyCheck(cs, p) ==
    IF p >= ProgressDen THEN Len(cs) - 1
    ELSE IF p <= 0 THEN 0
    ELSE WalkChunks(cs, 0, 0, p, TotalLength(cs))

\* getChunkIndexByCharacterCount(chunks, progress), lines 301-323; p is
\* progress * ProgressDen, the result is the 0-based index.
getChunkIndexByCharacterCount(cs, p) ==
    IF Len(cs) = 0 THEN 0
    ELSE IF p >= ProgressDen THEN Len(cs) - 1
    ELSE IF p <= 0 THEN 0
    ELSE WalkChunks(cs, 0, 0, p, TotalLength(cs))

\* Chunk lists given to getChunkIndexByCharacterCount: lists of strings of
\* 0, 1, 2 and 8 characters.
ChunkPool == {<<>>, <<"a">>, <<"a", "b">>, <<"a", "b", "c", "d", "e", "f", "g", "h">>}
ChunkLists == UNION {[1..n -> ChunkPool] : n \in 0..MaxChunks}
\* progress * ProgressDen: the fractions of [0, 1] and one value on each side.
ProgressValues == (0 - 1)..(ProgressDen + 1)

(***************************************************************************)
(* exportVideo: one call of drawFrame (lines 147-279) as the operations it *)
(* issues on the canvas's 2D context.  A vertical position is in           *)
(* hundredths of a pixel, so that height * 0.2 is height * 20; an opacity  *)
(* or an animation progress is a fraction <<n, d>>; startTime is times     *)
(* ProgressDen; backgroundOpacity and verticalPosition are percentages.    *)
(***************************************************************************)
PercentOf(h, pct) == h * pct

\* Lines 94-100: the part of the canvas the image is fitted into.
ImgArea(cv) ==
    IF isTopLayout(cv.aspectRatio)
    THEN [y |-> PercentOf(cv.height, 20), h |-> PercentOf(cv.height, 80)]
    ELSE IF isBottomLayout(cv.aspectRatio)
    THEN [y |-> 0, h |-> PercentOf(cv.height, 80)]
    ELSE [y |-> 0, h |-> PercentOf(cv.height, 100)]

TextYFromStyle(cv, style) == PercentOf(cv.height, style.verticalPosition)

\* Lines 223-226: the vertical centre of the subtitle.
TextY(cv, style) ==
    IF isBottomLayout(cv.aspectRatio) THEN PercentOf(cv.height, 90)
    ELSE IF isTopLayout(cv.aspectRatio) THEN PercentOf(cv.height, 10)
    ELSE PercentOf(cv.height, style.verticalPosition)

\* Line 169 (and part_005 line 261): progress >= el.startTime.
isActive(p, el) == p >= el.startTime

AnimProgressRetriggers(p, el, durationMs) ==
    LET d == ProgressDen * el.durationMs
        relativeTime == Max(0, (p - el.startTime) * durationMs)
    IN  <<relativeTime % (d + 1), d>>

\* Lines 172-173 (and part_005 lines 262-263) for an element whose duration
\* is positive: min(max(relativeTime / el.duration, 0), 1) as the fraction
\* <<n, d>>, where relativeTime = max(0, (progress - el.startTime) * seconds).
AnimProgress(p, el, durationMs) ==
    LET d == ProgressDen * el.durationMs
        relativeTime == Max(0, (p - el.startTime) * durationMs)
    IN  <<Min(Max(relativeTime, 0), d), d>>

One == <<1, 1>>
NoTransform == [kind |-> "none", by |-> One]
NoFilter == [kind |-> "none", by |-> One]

\* The settings of a 2D context as getContext('2d') returns it.
FreshCtx ==
    [shadowColor |-> "transparent", shadowBlur |-> 0, globalAlpha |-> One,
     filter |-> NoFilter, transform |-> NoTransform,
     font |-> "10px sans-serif", textAlign |-> "start"]

\* The settings a fill or an image operation is drawn under: all but the
\* text settings.
Painting(c) == [c EXCEPT !.font = "unused", !.textAlign = "unused"]

\* Lines 186-201: the settings between ctx.save() and ctx.restore().
OverlaySettings(c, el, ap) ==
    CASE el.animation = "fadeIn" -> [c EXCEPT !.globalAlpha = ap]
      [] el.animation = "zoomIn" ->
            [c EXCEPT !.transform = [kind |-> "scale", by |-> ap], !.globalAlpha = ap]
      [] el.animation = "highlight" ->
            [c EXCEPT !.filter = [kind |-> "brightness", by |-> ap]]
      [] el.animation = "slideUp" ->
            [c EXCEPT !.transform = [kind |-> "translateY", by |-> ap], !.globalAlpha = ap]
      [] OTHER -> c

DrawOp(name, what, y, h, txt, c) ==
    [op |-> name, what |-> what, y |-> y, h |-> h, text |-> txt, ctx |-> c]

\* Lines 167-206: the overlays of the active elements, in order; ctx.restore()
\* puts back the settings ctx.save() saved.
OverlayOps(c, s, p) ==
    LET els == s.visualElements
        active == SelectSeq(els, LAMBDA el : isActive(p, el))
    IN  [k \in DOMAIN active |->
            DrawOp("drawImage", "overlay", 0, 0, <<>>,
                   Painting(OverlaySettings(c, active[k],
                                            AnimProgress(p, active[k], Duration(s)))))]

CurrentSubtitleScriptFirst(s, p) ==
    LET textChunks == splitTextIntoChunks(s.script, DefaultMaxChars)
    IN  IF Len(textChunks) > 0
        THEN textChunks[getChunkIndexByCharacterCount(textChunks, p) + 1]
        ELSE s.subtitle

\* Lines 141-143 and 209-213.
CurrentSubtitle(s, p) ==
    LET textChunks == splitTextIntoChunks(s.script, DefaultMaxChars)
    IN  IF s.hasAudio /\ s.script # <<>> /\ Len(textChunks) > 0
        THEN textChunks[getChunkIndexByCharacterCount(textChunks, p) + 1]
        ELSE s.subtitle

\* PreviewArea, part_005 lines 344-352: displaySubtitle at playbackProgress p.
displaySubtitle(s, p) ==
    LET scriptChunks == splitTextIntoChunks(s.script, DefaultMaxChars)
        picked == scriptChunks[getChunkIndexByCharacterCount(scriptChunks, p) + 1]
        subtitleFromScript ==
            IF Len(scriptChunks) > 0
            THEN (IF picked # <<>> THEN picked ELSE scriptChunks[1])
            ELSE <<>>
        subtitleFromSaved == s.subtitle
    IN  IF s.hasAudio
        THEN (IF subtitleFromScript # <<>> THEN subtitleFromScript ELSE subtitleFromSaved)
        ELSE (IF subtitleFromSaved # <<>> THEN subtitleFromSaved ELSE subtitleFromScript)

DrawsBackgroundFromThreshold(style) == style.backgroundOpacity >= 30
\* Line 247.
DrawsBackground(style) == style.backgroundOpacity > 0
\* Line 262.
DrawsOutline(style) == style.backgroundOpacity < 30

\* Lines 215-275 for a subtitle of one run: the operations and the settings
\* they leave.
SubtitleDraw(c, cv, style, txt) ==
    LET c1 == [c EXCEPT !.font = "bold", !.textAlign = "center"]
        y == TextY(cv, style)
        rect == IF DrawsBackground(style)
                THEN <<DrawOp("fillRect", "background", y, 0, <<>>, Painting(c1))>>
                ELSE <<>>
        c2 == IF DrawsOutline(style)
              THEN [c1 EXCEPT !.shadowColor = "rgba(0,0,0,0.8)", !.shadowBlur = 4]
              ELSE [c1 EXCEPT !.shadowColor = "transparent"]
        stroke == IF DrawsOutline(style)
                  THEN <<DrawOp("strokeText", "outline", y, 0, txt, c2)>>
                  ELSE <<>>
    IN  [ops |-> rect \o stroke \o <<DrawOp("fillText", "subtitle", y, 0, txt, c2)>>,
         ctx |-> c2]

\* drawFrame at the progress p, called with the context settings c.
DrawFrameOps(c, cv, style, inc, s, p) ==
    LET area == ImgArea(cv)
        base == <<DrawOp("fillRect", "clear", 0, PercentOf(cv.height, 100), <<>>, Painting(c)),
                  DrawOp("drawImage", "base", area.y, area.h, <<>>, Painting(c))>>
        txt == CurrentSubtitle(s, p)
        sub == IF inc /\ txt # <<>>
               THEN SubtitleDraw(c, cv, style, txt)
               ELSE [ops |-> <<>>, ctx |-> c]
    IN  [ops |-> base \o OverlayOps(c, s, p) \o sub.ops, ctx |-> sub.ctx]

\* The inputs of the frames drawn.
\* App.tsx lines 226-227: the target handleExport passes.
FrameTarget(ar) == IF ar = "9:16" THEN <<1080, 1920>> ELSE <<1920, 1080>>
FrameNaturalSizes == {<<2149, 1001>>}
Canvases ==
    {[aspectRatio |-> ar,
      width |-> CanvasSize(ar, FrameTarget(ar)[1], FrameTarget(ar)[2])[1],
      height |-> CanvasSize(ar, FrameTarget(ar)[1], FrameTarget(ar)[2])[2]] :
        ar \in AspectRatio \ {"Original"}}
    \cup {[aspectRatio |-> "Original", width |-> OriginalSize(nat)[1],
           height |-> OriginalSize(nat)[2]] : nat \in FrameNaturalSizes}
SubtitleStyles ==
    [backgroundOpacity : {0, 20, 30, 100}, verticalPosition : {10, 50, 85}]
FrameElements ==
    [animation : {"fadeIn", "zoomIn", "slideUp", "highlight", "none"},
     startTime : {ProgressDen \div 2}, durationMs : {500}]
FrameScripts == {<<>>, <<" ">>, <<"a", NewLine, "b">>}
FrameSubtitles == {<<>>, <<"s">>}
FrameSlides ==
    {[hasAudio |-> a # 0, audioMs |-> a, script |-> sc, subtitle |-> st,
      visualElements |-> els] :
        a \in {0, 1000}, sc \in FrameScripts, st \in FrameSubtitles,
        els \in {<<>>} \cup {<<el>> : el \in FrameElements}}
FrameProgressValues == {0, ProgressDen \div 4, ProgressDen \div 2, ProgressDen}

\* No frame is being drawn.
FrameIdle ==
    /\ canvas = [aspectRatio |-> "16:9", width |-> 0, height |-> 0]
    /\ subtitleStyle = [backgroundOpacity |-> 0, verticalPosition |-> 0]
    /\ includeSubtitles = FALSE
    /\ frameSlide = [hasAudio |-> FALSE, audioMs |-> 0, script |-> <<>>, subtitle |-> <<>>,
                visualElements |-> <<>>]
    /\ frameProgress = 0
    /\ ctx = FreshCtx
    /\ ops = <<>>
    /\ drawn = FALSE

(***************************************************************************)
(* The animation of one element as the exporter (drawFrame, lines 167-206) *)
(* and the preview (getAnimationStyles, part_005 lines 259-303) evaluate   *)
(* it.                                                                     *)
(***************************************************************************)
Zero(d) == <<0, d>>
IsOne(f) == f[1] = f[2]
IsZero(f) == f[1] = 0

\* drawFrame for one element: nothing is drawn while it is not active (line
\* 170); base is the globalAlpha the base image of line 164 is drawn under.
ExportElement(el, s, p) ==
    LET ap == AnimProgress(p, el, Duration(s))
        c == OverlaySettings(FreshCtx, el, ap)
    IN  [active |-> isActive(p, el),
         animProgress |-> ap,
         drawn |-> isActive(p, el),
         alpha |-> c.globalAlpha,
         base |-> Painting(FreshCtx).globalAlpha]

\* part_005 line 262: activeSlide?.audioData?.duration || 1, in milliseconds.
PreviewDuration(s) == IF s.hasAudio /\ s.audioMs # 0 THEN s.audioMs ELSE 1000

PreviewOpacityAlwaysAnimated(el, active, ap) ==
    IF active THEN ap ELSE Zero(ap[2])

\* part_005 lines 277, 279-294: the opacity of the overlay.
PreviewOpacity(el, active, ap) ==
    IF ~active
    THEN IF el.animation \in {"fadeIn", "zoomIn", "slideUp"} THEN Zero(ap[2]) ELSE One
    ELSE IF el.animation \in {"fadeIn", "zoomIn", "slideUp"} THEN ap ELSE One

\* getAnimationStyles(el) at the progress p.
getAnimationStyles(el, s, p) ==
    LET ap == AnimProgress(p, el, PreviewDuration(s))
    IN  [active |-> isActive(p, el),
         animProgress |-> ap,
         opacity |-> PreviewOpacity(el, isActive(p, el), ap)]

PlayElements ==
    [animation : {"fadeIn", "zoomIn", "slideUp", "highlight", "none"},
     startTime : {0, ProgressDen \div 5, ProgressDen \div 2, ProgressDen},
     durationMs : {500, 1000, 5000}]
PlaySlides == {NoAudioSlide} \cup {[hasAudio |-> TRUE, audioMs |-> d] : d \in {1000, 5000}}
PlaybackProgressValues == {k * (ProgressDen \div 10) : k \in 0..10} \cup {ProgressDen}

\* No element is being evaluated.
PlayIdle ==
    /\ element = [animation |-> "none", startTime |-> 0, durationMs |-> 1000]
    /\ playSlide = NoAudioSlide
    /\ playbackProgress = 0
    /\ exported = ExportElement(element, playSlide, 0)
    /\ previewed = getAnimationStyles(element, playSlide, 0)
    /\ evaluated = FALSE

(***************************************************************************)
(* getMediaRecorderOptions, videoRenderer.ts lines 4-22.                   *)
(***************************************************************************)
PreferredMimeTypesReversed ==
    <<"video/webm", "video/webm;codecs=vp8", "video/webm;codecs=vp9">>

\* Lines 9-13.
PreferredMimeTypes ==
    <<"video/webm;codecs=vp9", "video/webm;codecs=vp8", "video/webm">>

\* The types a browser may support: the preferred ones and two others.
MimeTypes ==
    {"video/webm;codecs=vp9", "video/webm;codecs=vp8", "video/webm",
     "video/mp4", "video/x-matroska;codecs=avc1"}
Browsers == [mediaRecorder : BOOLEAN, supported : SUBSET MimeTypes]

\* Line 16: MediaRecorder.isTypeSupported(mimeType).
isTypeSupported(b, mimeType) == mimeType \in b.supported

\* getMediaRecorderOptions is not running.
EncoderIdle ==
    /\ browser = [mediaRecorder |-> TRUE, supported |-> {}]
    /\ encoderPc = "idle"
    /\ candidate = 0
    /\ recorderOptions = [mimeType |-> NULL]

(***************************************************************************)
(* App.tsx: handleBulkGenerateScript (lines 153-173) and                   *)
(* handleBulkGenerateAudio (lines 176-216).  A script is "" (none), "text",*)
(* "analyzing" (the placeholder of line 158) or "error" (the text of line  *)
(* 169).                                                                   *)
(***************************************************************************)
MaxDeck == 3
SlideIds == 1..MaxDeck
RECURSIVE Orderings(_)
Orderings(ids) ==
    IF ids = {} THEN {<<>>}
    ELSE UNION {{<<x>> \o t : t \in Orderings(ids \ {x})} : x \in ids}
\* selectedSlideIds, or the active slide: ids without repetition.
TargetLists == UNION {Orderings(ids) : ids \in SUBSET SlideIds}
Decks ==
    [SlideIds -> [present : {TRUE}, script : {"", "text"}, hasAudio : {FALSE},
                  isGeneratingAudio : {FALSE}]]

\* Lines 124-126: updateSlide(id, updates), for the fields of updates.
\* A slide that was deleted is not in the list and nothing is updated.
SetScript(d, id, v) == IF d[id].present THEN [d EXCEPT ![id].script = v] ELSE d
SetGenerating(d, id, v) ==
    IF d[id].present THEN [d EXCEPT ![id].isGeneratingAudio = v] ELSE d
SetAudio(d, id) ==
    IF d[id].present THEN [d EXCEPT ![id].hasAudio = TRUE, ![id].isGeneratingAudio = FALSE]
    ELSE d

\* slidesRef.current.find(s => s.id === id) finds a slide.
Found(d, id) == d[id].present

\* Line 158: the placeholder on every target.
MarkAnalyzing(d, ids) ==
    [id \in SlideIds |->
        IF \E k \in DOMAIN ids : ids[k] = id THEN [d[id] EXCEPT !.script = "analyzing"]
        ELSE d[id]]

\* Lines 179-181: the targets found that have a script other than the
\* placeholder.
Eligible(d, id) == Found(d, id) /\ d[id].script # "" /\ d[id].script # "analyzing"
EligibleSlides(d, ids) == SelectSeq(ids, LAMBDA id : Eligible(d, id))

AfterRequestStopsOnFailure(cur, ok, n) == IF ok THEN cur + 1 ELSE n + 1

\* Lines 161-171 and 190-208: the catch block ends the iteration and the
\* for-of loop goes on to the next id, whether the request succeeded or not.
AfterRequest(cur, ok, n) == cur + 1

\* No bulk handler is running.
BulkIdle ==
    /\ deck = [id \in SlideIds |->
                  [present |-> TRUE, script |-> "", hasAudio |-> FALSE,
                   isGeneratingAudio |-> FALSE]]
    /\ batchKind = "script"
    /\ targetIds = <<>> /\ queue = <<>> /\ cursor = 0
    /\ bulkPc = "idle"
    /\ attempts = <<>> /\ failed = {} /\ alerted = FALSE

(***************************************************************************)
(* geminiService.ts: compressImageBase64ForApi, lines 31-77.  An image is  *)
(* the length of its base64 string; what canvas.toDataURL produces for a   *)
(* size and a quality is any of EncodedLens.                               *)
(***************************************************************************)
MAX_IMAGE_BYTES_FOR_REQUEST == 1500000
maxDim == 1600
MinWidth == 480
MinHeight == 270

\* Line 7: Math.ceil((base64.length * 3) / 4).
estimateBase64Bytes(len) == (len * 3 + 3) \div 4

WithinLimit(len) == estimateBase64Bytes(len) <= MAX_IMAGE_BYTES_FOR_REQUEST

\* Lines 42-44: the first size, at most maxDim on the longer side.
FirstSize(w, h) ==
    IF Max(w, h) <= maxDim THEN <<Max(1, w), Max(1, h)>>
    ELSE <<Max(1, (w * maxDim) \div Max(w, h)), Max(1, (h * maxDim) \div Max(w, h))>>

ScaledDownKeepsSize(v, lowest) == Max(lowest, v)

\* Lines 64-65: Math.floor(width * 0.8), not below the minimum.
ScaledDown(v, lowest) == Max(lowest, (v * 4) \div 5)

\* Line 51: the base64 part of the data URL, or the input when it is empty.
RenderAt(len, input) == IF len = 0 THEN input.len ELSE len

\* Line 63: the condition of the while loop.
KeepsScaling(b, w, h) == ~WithinLimit(b) /\ w > MinWidth /\ h > MinHeight

NumQualitySteps == 5

\* The images given and the lengths an encoding can have: on both sides of
\* the limit of 2000000 base64 characters.
InputLens == {1000, 2000000, 2000001, 4000000}
InputSizes == {<<4000, 3000>>, <<800, 600>>, <<500, 3000>>, <<1000, 260>>, <<481, 271>>}
EncodedLens == {0, 2000000, 2000001}
ImageInputs ==
    {[len |-> l, width |-> sz[1], height |-> sz[2], loads |-> ok] :
        l \in InputLens, sz \in InputSizes, ok \in BOOLEAN}

\* compressImageBase64ForApi is not running.
CompressIdle ==
    /\ imageInput = [len |-> 0, width |-> 0, height |-> 0, loads |-> TRUE]
    /\ hasContext = TRUE
    /\ compressPc = "idle"
    /\ scaledWidth = 0 /\ scaledHeight = 0
    /\ best = 0 /\ qualityStep = 0 /\ returned = 0 /\ rounds = 0

\* No App handler is running.
AppIdle ==
    /\ isExporting = FALSE
    /\ handlerPc = "idle"
    /\ uploadPc = "idle"
    /\ failureAlerts = 0
    /\ inProgress = 0

\* The preview has not played anything.
PreviewIdle ==
    /\ clock = 0 /\ isPlaying = FALSE /\ previewProgress = 0
    /\ pausedTimeRef = 0 /\ startTimeRef = 0
    /\ sourceRef = FALSE /\ animationFrameRef = FALSE
    /\ audible = FALSE /\ audioOffset = 0
    /\ stoppedEnded = 0 /\ finishedEnded = FALSE
    /\ resumePoint = 0 - 1 /\ staleDelivered = FALSE

\* The App as it is mounted: SAMPLE_SLIDES is empty.
EditIdle ==
    /\ appSlides = <<>>
    /\ activeSlideId = 0
    /\ selectedSlideIds = <<>>
    /\ selectedElementId = 0
    /\ animSlideId = 0
    /\ nextSlideId = 1 /\ nextElementId = 1
    /\ lateResponse = FALSE

\* Nothing is being dragged.
DragIdle ==
    /\ interactionMode = "none"
    /\ startElementRect = [x |-> 0, y |-> 0, w |-> 1, h |-> 1]
    /\ elementRect = [x |-> 0, y |-> 0, w |-> 1, h |-> 1]
    /\ grabs = 0

MoreIdle == AppIdle /\ PreviewIdle /\ EditIdle /\ DragIdle

RestIdle == FrameIdle /\ PlayIdle /\ EncoderIdle /\ BulkIdle /\ CompressIdle /\ MoreIdle

TextIdle ==
    /\ text = <<>> /\ maxChars = NULL /\ chunks = <<>> /\ splitDone = FALSE
    /\ progress = 0 /\ chunkIndex = 0 /\ lookedUp = FALSE

AnimIdle == response = <<>> /\ stored = <<>> /\ ingested = FALSE

ExportInit ==
    /\ slides \in SlideLists
    /\ aspectRatio \in AspectRatio
    /\ \E t \in Targets : targetWidth = t[1] /\ targetHeight = t[2]
    /\ env \in [mediaRecorder : BOOLEAN, ctx2d : BOOLEAN, brokenDrawThrows : BOOLEAN]
    /\ natural = <<0, 0>>
    /\ pc = "start"
    /\ width = 0 /\ height = 0 /\ canvasCreated = FALSE
    /\ audioContext = "none"
    /\ recorder = "none" /\ recorderStarts = 0 /\ recorderStops = 0 /\ onstopFired = FALSE
    /\ promise = "none"
    /\ i = 0
    /\ imgState = [k \in 1..Len(slides) |-> "none"]
    /\ sources = [k \in 1..Len(slides) |-> "none"]
    /\ elapsed = 0
    /\ frames = [k \in 1..Len(slides) |-> 0]
    /\ loopEnded = [k \in 1..Len(slides) |-> FALSE]
    /\ lastFrame = NoFrame

Init == ExportInit /\ TextIdle /\ AnimIdle /\ RestIdle

Next ==
    \/ ExportBegin
    \/ OriginalImageSettles
    \/ ImageSettles
    \/ AnimationFrame
    \/ FramesDone
    \/ RecorderOnStop

Spec == Init /\ [][Next]_vars

\* The export under the scheduling the browser gives: a pending image request
\* settles, an animation frame requested is delivered, a resumed await runs,
\* the stop event of a stopped recorder is delivered.
FairSpec ==
    /\ Init /\ [][Next]_vars
    /\ WF_vars(ExportBegin)
    /\ WF_vars(OriginalImageSettles)
    /\ WF_vars(ImageSettles)
    /\ WF_vars(AnimationFrame)
    /\ WF_vars(FramesDone)
    /\ WF_vars(RecorderOnStop)

(***************************************************************************)
(* The chunker on its own: the specifications of its two functions.        *)
(***************************************************************************)
\* No export is running.
ExportIdle ==
    /\ slides = <<>>
    /\ aspectRatio = "16:9"
    /\ targetWidth = 1920 /\ targetHeight = 1080
    /\ env = [mediaRecorder |-> TRUE, ctx2d |-> TRUE, brokenDrawThrows |-> FALSE]
    /\ natural = <<0, 0>>
    /\ pc = "idle"
    /\ width = 0 /\ height = 0 /\ canvasCreated = FALSE
    /\ audioContext = "none"
    /\ recorder = "none" /\ recorderStarts = 0 /\ recorderStops = 0 /\ onstopFired = FALSE
    /\ promise = "none"
    /\ i = 0
    /\ imgState = <<>> /\ sources = <<>> /\ frames = <<>> /\ loopEnded = <<>>
    /\ lastFrame = NoFrame
    /\ elapsed = 0

\* splitTextIntoChunks(text, maxChars) is called.
SplitText ==
    /\ ~splitDone
    /\ \E m \in MaxCharsChoices :
          /\ maxChars' = m
          /\ chunks' = splitTextIntoChunks(text, m)
    /\ splitDone' = TRUE
    /\ UNCHANGED <<text, progress, chunkIndex, lookedUp>>
    /\ UNCHANGED <<exportVars, animVars, restVars>>

SplitInit ==
    /\ ExportIdle /\ AnimIdle /\ RestIdle
    /\ text \in Texts
    /\ maxChars = NULL /\ chunks = <<>> /\ splitDone = FALSE
    /\ progress = 0 /\ chunkIndex = 0 /\ lookedUp = FALSE

SplitNext == SplitText

SpecSplit == SplitInit /\ [][SplitNext]_vars

\* getChunkIndexByCharacterCount(chunks, progress) is called, as it is for
\* every frame with that frame's progress.
Lookup ==
    /\ \E p \in ProgressValues :
          /\ progress' = p
          /\ chunkIndex' = getChunkIndexByCharacterCount(chunks, p)
    /\ lookedUp' = TRUE
    /\ UNCHANGED <<text, maxChars, chunks, splitDone>>
    /\ UNCHANGED <<exportVars, animVars, restVars>>

ChunkInit ==
    /\ ExportIdle /\ AnimIdle /\ RestIdle
    /\ chunks \in ChunkLists
    /\ text = <<>> /\ maxChars = NULL /\ splitDone = FALSE
    /\ progress = 0 /\ chunkIndex = 0 /\ lookedUp = FALSE

ChunkNext == Lookup

SpecChunk == ChunkInit /\ [][ChunkNext]_vars

(***************************************************************************)
(* generateSlideAnimations (geminiService.ts): what is stored for the      *)
(* elements the detection service returned.  A JSON value is a record      *)
(* [kind, val]; rect values are percentages, startTime and duration are in *)
(* tenths (startTime 1.0 is 10, 1.5 seconds are 15).                      *)
(***************************************************************************)
DefaultRectSize == 20
DefaultDurationTenths == 15

Undefined == [kind |-> "undefined", val |-> 0]
NaN == [kind |-> "NaN", val |-> 0]
NotANumber == [kind |-> "string", val |-> 0]
Num(n) == [kind |-> "number", val |-> n]

\* Number(v)
ToNumber(v) == IF v.kind = "number" THEN v ELSE NaN
\* v ?? d
Coalesce(v, d) == IF v.kind = "undefined" THEN d ELSE v
\* Math.min, Math.max and the subtraction of two numbers
MathMin(a, b) == IF a.kind = "NaN" \/ b.kind = "NaN" THEN NaN ELSE Num(Min(a.val, b.val))
MathMax(a, b) == IF a.kind = "NaN" \/ b.kind = "NaN" THEN NaN ELSE Num(Max(a.val, b.val))
Minus(a, b) == IF a.kind = "NaN" \/ b.kind = "NaN" THEN NaN ELSE Num(a.val - b.val)

AnimationType == {"none", "fadeIn", "zoomIn", "highlight", "slideUp"}

\* Lines 150-162: the stored rect of an element.
StoredRect(rect) ==
    LET x == ToNumber(Coalesce(rect.x, Num(0)))
        y == ToNumber(Coalesce(rect.y, Num(0)))
        w == ToNumber(Coalesce(rect.w, Num(DefaultRectSize)))
        h == ToNumber(Coalesce(rect.h, Num(DefaultRectSize)))
    IN  [x |-> MathMax(Num(0), MathMin(Num(100), x)),
         y |-> MathMax(Num(0), MathMin(Num(100), y)),
         w |-> MathMax(Num(1), MathMin(Minus(Num(100), MathMax(Num(0), x)), w)),
         h |-> MathMax(Num(1), MathMin(Minus(Num(100), MathMax(Num(0), y)), h))]

\* Lines 154-166: the VisualElement stored for an element (id and label left out).
StoredElement(el) ==
    [rect |-> StoredRect(el.rect),
     animation |-> IF el.animation = "" THEN "none" ELSE el.animation,
     startTime |-> ToNumber(Coalesce(el.startTime, Num(0))),
     duration |-> ToNumber(Coalesce(el.duration, Num(DefaultDurationTenths)))]

\* Line 148: el && typeof el === 'object' && el.rect
KeptElement(el) == el.isObject /\ el.hasRect

\* Lines 145-167: the array returned for result.elements.
StoredElements(resp) ==
    LET elements == IF resp.isArray THEN resp.elements ELSE <<>>
        kept == SelectSeq(elements, KeptElement)
    IN  [k \in DOMAIN kept |-> StoredElement(kept[k])]

\* What the detection service may send.
RawXY == {Num(0 - 50), Num(40), Num(100), Num(150), Undefined}
RawWH == {Num(0 - 50), Num(30), Num(150), Undefined, NotANumber}
RawStartTimes == {Undefined, Num(0 - 5), Num(5), Num(20)}
RawDurations == {Undefined, Num(0), Num(20)}
RawAnimations == {"", "zoomIn", "spin"}
RawRects == [x : RawXY, y : RawXY, w : RawWH, h : RawWH]
RawElements ==
    [isObject : {TRUE}, hasRect : {TRUE}, rect : RawRects, animation : RawAnimations,
     startTime : RawStartTimes, duration : RawDurations]
NoRect == [x |-> Undefined, y |-> Undefined, w |-> Undefined, h |-> Undefined]
\* null, and an object without rect
DroppedElements ==
    {[isObject |-> FALSE, hasRect |-> FALSE, rect |-> NoRect, animation |-> "",
      startTime |-> Undefined, duration |-> Undefined],
     [isObject |-> TRUE, hasRect |-> FALSE, rect |-> NoRect, animation |-> "fadeIn",
      startTime |-> Num(0), duration |-> Num(10)]}
RawResponses ==
    {[isArray |-> FALSE, elements |-> <<>>], [isArray |-> TRUE, elements |-> <<>>]}
    \cup {[isArray |-> TRUE, elements |-> <<e>>] : e \in RawElements}
    \cup {[isArray |-> TRUE, elements |-> <<d, e>>] : d \in DroppedElements, e \in RawElements}

\* postGemini has returned result: lines 145-167.
Ingest ==
    /\ ~ingested
    /\ stored' = StoredElements(response)
    /\ ingested' = TRUE
    /\ UNCHANGED response
    /\ UNCHANGED <<exportVars, textVars, restVars>>

AnimInit ==
    /\ ExportIdle /\ TextIdle /\ RestIdle
    /\ response \in RawResponses
    /\ stored = <<>>
    /\ ingested = FALSE

AnimNext == Ingest

SpecAnim == AnimInit /\ [][AnimNext]_vars

(***************************************************************************)
(* The frames of an export: drawFrame is called for slide after slide on   *)
(* the one context of line 70, with the style, the layout and the          *)
(* includeSubtitles flag of the call.                                      *)
(***************************************************************************)
Draw(s, p) ==
    LET r == DrawFrameOps(ctx, canvas, subtitleStyle, includeSubtitles, s, p)
    IN  /\ frameSlide' = s
        /\ frameProgress' = p
        /\ ops' = r.ops
        /\ ctx' = r.ctx
        /\ drawn' = TRUE
        /\ UNCHANGED <<canvas, subtitleStyle, includeSubtitles>>
        /\ UNCHANGED <<exportVars, textVars, animVars, playVars, encoderVars, bulkVars, compressVars, moreVars>>

\* Line 280: the first frame of the first slide, at elapsed 0.
FirstFrame ==
    /\ ~drawn
    /\ Draw(frameSlide, 0)

\* Line 277: a later frame of the same slide, the clock having advanced.
LaterFrame ==
    /\ drawn
    /\ frameProgress < ProgressDen
    /\ \E p \in FrameProgressValues : p >= frameProgress /\ Draw(frameSlide, p)

\* Lines 278 and 114-146, 280: the slide's frames are over (elapsed >=
\* duration) and the first frame of the next slide is drawn.
NextSlideFrame ==
    /\ drawn
    /\ frameProgress >= ProgressDen
    /\ \E s \in FrameSlides : Draw(s, 0)

FrameInit ==
    /\ ExportIdle /\ TextIdle /\ AnimIdle /\ PlayIdle /\ EncoderIdle /\ BulkIdle /\ CompressIdle /\ MoreIdle
    /\ canvas \in Canvases
    /\ subtitleStyle \in SubtitleStyles
    /\ includeSubtitles \in BOOLEAN
    /\ frameSlide \in FrameSlides
    /\ frameProgress = 0
    /\ ctx = FreshCtx
    /\ ops = <<>>
    /\ drawn = FALSE

FrameNext == FirstFrame \/ LaterFrame \/ NextSlideFrame

SpecFrame == FrameInit /\ [][FrameNext]_vars

(***************************************************************************)
(* An element evaluated at one progress after another: each frame of the   *)
(* export and each render of the preview recomputes it from the progress.  *)
(***************************************************************************)
Evaluate ==
    /\ \E p \in PlaybackProgressValues :
          /\ playbackProgress' = p
          /\ exported' = ExportElement(element, playSlide, p)
          /\ previewed' = getAnimationStyles(element, playSlide, p)
    /\ evaluated' = TRUE
    /\ UNCHANGED <<element, playSlide>>
    /\ UNCHANGED <<exportVars, textVars, animVars, frameVars, encoderVars, bulkVars, compressVars, moreVars>>

PlayInit ==
    /\ ExportIdle /\ TextIdle /\ AnimIdle /\ FrameIdle /\ EncoderIdle /\ BulkIdle /\ CompressIdle /\ MoreIdle
    /\ element \in PlayElements
    /\ playSlide \in PlaySlides
    /\ playbackProgress = 0
    /\ exported = ExportElement(element, playSlide, 0)
    /\ previewed = getAnimationStyles(element, playSlide, 0)
    /\ evaluated = FALSE

PlayNext == Evaluate

SpecPlay == PlayInit /\ [][PlayNext]_vars

(***************************************************************************)
(* getMediaRecorderOptions, step by step.                                  *)
(***************************************************************************)
\* Lines 5-7 and 9-13.
EncoderStart ==
    /\ encoderPc = "start"
    /\ IF ~browser.mediaRecorder
       THEN encoderPc' = "thrown" /\ UNCHANGED candidate
       ELSE encoderPc' = "loop" /\ candidate' = 1
    /\ UNCHANGED <<browser, recorderOptions>>
    /\ UNCHANGED <<exportVars, textVars, animVars, frameVars, playVars, bulkVars, compressVars, moreVars>>

\* Lines 15-17: one iteration of the loop.
EncoderTry ==
    /\ encoderPc = "loop"
    /\ candidate <= Len(PreferredMimeTypes)
    /\ IF isTypeSupported(browser, PreferredMimeTypes[candidate])
       THEN /\ recorderOptions' = [mimeType |-> PreferredMimeTypes[candidate]]
            /\ encoderPc' = "returned"
            /\ UNCHANGED candidate
       ELSE /\ candidate' = candidate + 1
            /\ UNCHANGED <<encoderPc, recorderOptions>>
    /\ UNCHANGED browser
    /\ UNCHANGED <<exportVars, textVars, animVars, frameVars, playVars, bulkVars, compressVars, moreVars>>

\* Line 21: the loop is over, return {}.
EncoderDefault ==
    /\ encoderPc = "loop"
    /\ candidate > Len(PreferredMimeTypes)
    /\ recorderOptions' = [mimeType |-> NULL]
    /\ encoderPc' = "returned"
    /\ UNCHANGED <<browser, candidate>>
    /\ UNCHANGED <<exportVars, textVars, animVars, frameVars, playVars, bulkVars, compressVars, moreVars>>

EncoderInit ==
    /\ ExportIdle /\ TextIdle /\ AnimIdle /\ FrameIdle /\ PlayIdle /\ BulkIdle /\ CompressIdle /\ MoreIdle
    /\ browser \in Browsers
    /\ encoderPc = "start"
    /\ candidate = 0
    /\ recorderOptions = [mimeType |-> NULL]

EncoderNext == EncoderStart \/ EncoderTry \/ EncoderDefault

SpecEncoder == EncoderInit /\ [][EncoderNext]_vars

(***************************************************************************)
(* The two bulk handlers, one action per stretch between awaits; the user  *)
(* may delete a slide while a handler runs.                                *)
(***************************************************************************)
BulkOthersUnchanged ==
    UNCHANGED <<exportVars, textVars, animVars, frameVars, playVars, encoderVars, compressVars, moreVars>>

\* handleBulkGenerateScript, lines 154-159.
ScriptBegin ==
    /\ bulkPc = "start" /\ batchKind = "script"
    /\ IF Len(targetIds) = 0
       THEN bulkPc' = "done" /\ UNCHANGED <<deck, queue, cursor>>
       ELSE /\ deck' = MarkAnalyzing(deck, targetIds)
            /\ queue' = targetIds
            /\ cursor' = 1
            /\ bulkPc' = "loop"
    /\ UNCHANGED <<batchKind, targetIds, attempts, failed, alerted>>
    /\ BulkOthersUnchanged

\* Lines 161-166: the next id; a slide no longer there is skipped, for the
\* others the request is sent.
ScriptNext ==
    /\ bulkPc = "loop" /\ batchKind = "script"
    /\ cursor <= Len(queue)
    /\ IF ~Found(deck, queue[cursor])
       THEN cursor' = cursor + 1 /\ UNCHANGED <<bulkPc, attempts>>
       ELSE /\ attempts' = Append(attempts, queue[cursor])
            /\ bulkPc' = "request"
            /\ UNCHANGED cursor
    /\ UNCHANGED <<deck, batchKind, targetIds, queue, failed, alerted>>
    /\ BulkOthersUnchanged

\* Lines 166-170: generateSlideScript settles.
ScriptSettles ==
    /\ bulkPc = "request" /\ batchKind = "script"
    /\ \E ok \in BOOLEAN :
          /\ deck' = SetScript(deck, queue[cursor], IF ok THEN "text" ELSE "error")
          /\ failed' = IF ok THEN failed ELSE failed \cup {queue[cursor]}
          /\ cursor' = AfterRequest(cursor, ok, Len(queue))
    /\ bulkPc' = "loop"
    /\ UNCHANGED <<batchKind, targetIds, queue, attempts, alerted>>
    /\ BulkOthersUnchanged

\* handleBulkGenerateAudio, lines 177-189.
AudioBegin ==
    /\ bulkPc = "start" /\ batchKind = "audio"
    /\ IF Len(targetIds) = 0
       THEN bulkPc' = "done" /\ UNCHANGED <<queue, cursor, alerted>>
       ELSE IF EligibleSlides(deck, targetIds) = <<>>
       THEN bulkPc' = "done" /\ alerted' = TRUE /\ UNCHANGED <<queue, cursor>>
       ELSE /\ queue' = EligibleSlides(deck, targetIds)
            /\ cursor' = 1
            /\ bulkPc' = "loop"
            /\ UNCHANGED alerted
    /\ UNCHANGED <<deck, batchKind, targetIds, attempts, failed>>
    /\ BulkOthersUnchanged

\* Lines 190-195: the next eligible slide is marked and its request sent.
AudioNext ==
    /\ bulkPc = "loop" /\ batchKind = "audio"
    /\ cursor <= Len(queue)
    /\ deck' = SetGenerating(deck, queue[cursor], TRUE)
    /\ attempts' = Append(attempts, queue[cursor])
    /\ bulkPc' = "request"
    /\ UNCHANGED <<batchKind, targetIds, queue, cursor, failed, alerted>>
    /\ BulkOthersUnchanged

\* Lines 195-207: generateSpeech settles with audio that decodes, or it
\* returns null, throws, or the decoding throws.
AudioSettles ==
    /\ bulkPc = "request" /\ batchKind = "audio"
    /\ \E ok \in BOOLEAN :
          /\ deck' = IF ok THEN SetAudio(deck, queue[cursor])
                     ELSE SetGenerating(deck, queue[cursor], FALSE)
          /\ failed' = IF ok THEN failed ELSE failed \cup {queue[cursor]}
          /\ cursor' = AfterRequest(cursor, ok, Len(queue))
    /\ bulkPc' = "loop"
    /\ UNCHANGED <<batchKind, targetIds, queue, attempts, alerted>>
    /\ BulkOthersUnchanged

\* Lines 172 and 210-215: the loop is over.
BulkEnd ==
    /\ bulkPc = "loop"
    /\ cursor > Len(queue)
    /\ bulkPc' = "done"
    /\ alerted' = (batchKind = "audio" /\ failed # {})
    /\ UNCHANGED <<deck, batchKind, targetIds, queue, cursor, attempts, failed>>
    /\ BulkOthersUnchanged

\* Lines 128-135: deleteSlide(id), while a handler runs.
DeleteSlide ==
    /\ bulkPc \in {"loop", "request"}
    /\ \E id \in SlideIds :
          /\ deck[id].present
          /\ deck' = [deck EXCEPT ![id] = [present |-> FALSE, script |-> "", hasAudio |-> FALSE,
                                            isGeneratingAudio |-> FALSE]]
    /\ UNCHANGED <<batchKind, targetIds, queue, cursor, bulkPc, attempts, failed, alerted>>
    /\ BulkOthersUnchanged

BulkInit ==
    /\ ExportIdle /\ TextIdle /\ AnimIdle /\ FrameIdle /\ PlayIdle /\ EncoderIdle /\ CompressIdle /\ MoreIdle
    /\ deck \in Decks
    /\ batchKind \in {"script", "audio"}
    /\ targetIds \in TargetLists
    /\ queue = <<>> /\ cursor = 0
    /\ bulkPc = "start"
    /\ attempts = <<>> /\ failed = {} /\ alerted = FALSE

BulkNext ==
    \/ ScriptBegin
    \/ ScriptNext
    \/ ScriptSettles
    \/ AudioBegin
    \/ AudioNext
    \/ AudioSettles
    \/ BulkEnd
    \/ DeleteSlide

SpecBulk == BulkInit /\ [][BulkNext]_vars

(***************************************************************************)
(* compressImageBase64ForApi, one action per rendering.                    *)
(***************************************************************************)
CompressOthersUnchanged ==
    UNCHANGED <<exportVars, textVars, animVars, frameVars, playVars, encoderVars, bulkVars, moreVars>>

\* Lines 32-36: an image within the limit is returned as it is; otherwise it
\* is loaded.
CompressBegin ==
    /\ compressPc = "start"
    /\ IF WithinLimit(imageInput.len)
       THEN compressPc' = "returned" /\ returned' = imageInput.len
       ELSE compressPc' = "loading" /\ UNCHANGED returned
    /\ UNCHANGED <<imageInput, hasContext, scaledWidth, scaledHeight, best, qualityStep, rounds>>
    /\ CompressOthersUnchanged

\* Lines 36-55: the load settles; without a context the input is returned
\* (line 39); with one, the first rendering.
ImageLoadSettles ==
    /\ compressPc = "loading"
    /\ IF ~imageInput.loads
       THEN \* the rejection is caught at line 74
            /\ compressPc' = "thrown"
            /\ UNCHANGED <<scaledWidth, scaledHeight, best, qualityStep, returned>>
       ELSE IF ~hasContext
       THEN /\ compressPc' = "returned"
            /\ returned' = imageInput.len
            /\ UNCHANGED <<scaledWidth, scaledHeight, best, qualityStep>>
       ELSE /\ scaledWidth' = FirstSize(imageInput.width, imageInput.height)[1]
            /\ scaledHeight' = FirstSize(imageInput.width, imageInput.height)[2]
            /\ \E len \in EncodedLens : best' = RenderAt(len, imageInput)
            /\ qualityStep' = 1
            /\ compressPc' = "quality"
            /\ UNCHANGED returned
    /\ UNCHANGED <<imageInput, hasContext, rounds>>
    /\ CompressOthersUnchanged

\* Lines 56-60: one quality of qualitySteps.
QualityStep ==
    /\ compressPc = "quality"
    /\ \E len \in EncodedLens :
          LET rendered == RenderAt(len, imageInput)
          IN  /\ best' = rendered
              /\ IF WithinLimit(rendered)
                 THEN /\ compressPc' = "returned"
                      /\ returned' = rendered
                      /\ UNCHANGED qualityStep
                 ELSE /\ qualityStep' = qualityStep + 1
                      /\ compressPc' = IF qualityStep + 1 > NumQualitySteps
                                       THEN "scale" ELSE "quality"
                      /\ UNCHANGED returned
    /\ UNCHANGED <<imageInput, hasContext, scaledWidth, scaledHeight, rounds>>
    /\ CompressOthersUnchanged

\* Lines 63-67: one iteration of the while loop.
ScaleStep ==
    /\ compressPc = "scale"
    /\ KeepsScaling(best, scaledWidth, scaledHeight)
    /\ scaledWidth' = ScaledDown(scaledWidth, MinWidth)
    /\ scaledHeight' = ScaledDown(scaledHeight, MinHeight)
    /\ \E len \in EncodedLens : best' = RenderAt(len, imageInput)
    /\ rounds' = rounds + 1
    /\ UNCHANGED <<imageInput, hasContext, compressPc, qualityStep, returned>>
    /\ CompressOthersUnchanged

\* Lines 69-76: after the while loop.
ScaleEnd ==
    /\ compressPc = "scale"
    /\ ~KeepsScaling(best, scaledWidth, scaledHeight)
    /\ IF ~WithinLimit(best)
       THEN compressPc' = "thrown" /\ UNCHANGED returned
       ELSE compressPc' = "returned" /\ returned' = best
    /\ UNCHANGED <<imageInput, hasContext, scaledWidth, scaledHeight, best, qualityStep, rounds>>
    /\ CompressOthersUnchanged

CompressInit ==
    /\ ExportIdle /\ TextIdle /\ AnimIdle /\ FrameIdle /\ PlayIdle /\ EncoderIdle /\ BulkIdle /\ MoreIdle
    /\ imageInput \in ImageInputs
    /\ hasContext \in BOOLEAN
    /\ compressPc = "start"
    /\ scaledWidth = 0 /\ scaledHeight = 0
    /\ best = 0 /\ qualityStep = 0 /\ returned = 0 /\ rounds = 0

CompressNext ==
    \/ CompressBegin
    \/ ImageLoadSettles
    \/ QualityStep
    \/ ScaleStep
    \/ ScaleEnd

SpecCompress == CompressInit /\ [][CompressNext]_vars

\* The function under the scheduling the browser gives: the load settles and
\* the synchronous code after it runs on.
FairSpecCompress ==
    /\ CompressInit /\ [][CompressNext]_vars
    /\ WF_vars(CompressBegin)
    /\ WF_vars(ImageLoadSettles)
    /\ WF_vars(QualityStep)
    /\ WF_vars(ScaleStep)
    /\ WF_vars(ScaleEnd)

(***************************************************************************)
(* App.tsx: handleExport (lines 218-244) around exportVideo, with the      *)
(* other things the user can do: upload files (handleFileUpload, lines     *)
(* 64-122), delete a slide, choose an aspect ratio.  While isExporting is  *)
(* true the overlay of line 369 covers the window and the export button is *)
(* disabled (line 300).                                                    *)
(***************************************************************************)
serviceVars == <<textVars, animVars, frameVars, playVars, encoderVars, bulkVars, compressVars,
                 previewVars, editVars, dragVars>>

\* Lines 300 and 219: the button is enabled and slides.length is not 0.
CanStartExport(exporting, n) == ~exporting /\ n > 0

UserCanActAlways(exporting) == TRUE

\* Line 369: the overlay is not shown, the controls can be reached.
UserCanAct(exporting) == ~exporting

\* At most this many exportVideo calls are followed at once.
MaxExports == 2

AppAspectRatios == {"16:9", "9:16", "Original", "Top"}

ExportLocalsUnchanged ==
    UNCHANGED <<natural, pc, width, height, canvasCreated, audioContext, recorder,
                recorderStarts, recorderStops, onstopFired, promise, i, imgState, sources,
                elapsed, frames, loopEnded, lastFrame>>

\* The locals of an exportVideo call that has not run yet, or is over.
ExportLocalsReset(n, at) ==
    /\ natural' = <<0, 0>>
    /\ pc' = at
    /\ width' = 0 /\ height' = 0 /\ canvasCreated' = FALSE
    /\ audioContext' = "none"
    /\ recorder' = "none" /\ recorderStarts' = 0 /\ recorderStops' = 0 /\ onstopFired' = FALSE
    /\ promise' = "none"
    /\ i' = 0
    /\ imgState' = [k \in 1..n |-> "none"]
    /\ sources' = [k \in 1..n |-> "none"]
    /\ elapsed' = 0
    /\ frames' = [k \in 1..n |-> 0]
    /\ loopEnded' = [k \in 1..n |-> FALSE]
    /\ lastFrame' = NoFrame

\* Lines 219-222: the click on Export Video, up to the await of the import.
HandleExport ==
    /\ UserCanAct(isExporting)
    /\ CanStartExport(isExporting, Len(slides))
    /\ isExporting' = TRUE
    /\ handlerPc' = "loading"
    /\ failureAlerts' = 0
    /\ UNCHANGED <<uploadPc, inProgress>>
    /\ UNCHANGED <<slides, aspectRatio, targetWidth, targetHeight, env>>
    /\ ExportLocalsUnchanged
    /\ UNCHANGED serviceVars

\* Lines 222-231: the import settles; exportVideo is called with the target
\* size of lines 225-226, or the failed import is caught (lines 238-243).
RendererLoaded ==
    /\ handlerPc = "loading"
    /\ inProgress < MaxExports
    /\ \E ok \in BOOLEAN :
          IF ok
          THEN /\ handlerPc' = "exporting"
               /\ inProgress' = inProgress + 1
               /\ targetWidth' = FrameTarget(aspectRatio)[1]
               /\ targetHeight' = FrameTarget(aspectRatio)[2]
               /\ ExportLocalsReset(Len(slides), "start")
               /\ UNCHANGED <<isExporting, failureAlerts>>
          ELSE /\ handlerPc' = "idle"
               /\ failureAlerts' = failureAlerts + 1
               /\ isExporting' = FALSE
               /\ UNCHANGED <<inProgress, targetWidth, targetHeight>>
               /\ ExportLocalsUnchanged
    /\ UNCHANGED uploadPc
    /\ UNCHANGED <<slides, aspectRatio, env>>
    /\ UNCHANGED serviceVars

\* Lines 223-243: the promise of exportVideo settles; the download, or the
\* alert of the catch block, and the finally block.
ExportSettles ==
    /\ handlerPc = "exporting"
    /\ promise \in {"resolved", "rejected"}
    /\ failureAlerts' = IF promise = "rejected" THEN failureAlerts + 1 ELSE failureAlerts
    /\ isExporting' = FALSE
    /\ handlerPc' = "idle"
    /\ inProgress' = inProgress - 1
    /\ UNCHANGED uploadPc
    /\ ExportLocalsReset(0, "idle")
    /\ UNCHANGED <<slides, aspectRatio, targetWidth, targetHeight, env>>
    /\ UNCHANGED serviceVars

\* Lines 64-68: files are chosen.
UploadBegin ==
    /\ UserCanAct(isExporting)
    /\ uploadPc = "idle"
    /\ isExporting' = TRUE
    /\ uploadPc' = "reading"
    /\ UNCHANGED <<handlerPc, failureAlerts, inProgress>>
    /\ UNCHANGED exportVars
    /\ UNCHANGED serviceVars

\* Lines 70-121: the files are read (a slide is appended) or reading fails.
UploadEnd ==
    /\ uploadPc = "reading"
    /\ \E ok \in BOOLEAN :
          slides' = IF ok /\ Len(slides) < MaxSlides THEN Append(slides, NoAudioSlide)
                    ELSE slides
    /\ isExporting' = FALSE
    /\ uploadPc' = "idle"
    /\ UNCHANGED <<handlerPc, failureAlerts, inProgress>>
    /\ UNCHANGED <<aspectRatio, targetWidth, targetHeight, env>>
    /\ ExportLocalsUnchanged
    /\ UNCHANGED serviceVars

\* Lines 128-135: a slide is deleted.
AppDeleteSlide ==
    /\ UserCanAct(isExporting)
    /\ \E k \in DOMAIN slides :
          slides' = [j \in 1..(Len(slides) - 1) |-> IF j < k THEN slides[j] ELSE slides[j + 1]]
    /\ UNCHANGED appVars
    /\ UNCHANGED <<aspectRatio, targetWidth, targetHeight, env>>
    /\ ExportLocalsUnchanged
    /\ UNCHANGED serviceVars

\* Lines 285-289: an aspect ratio button.
SetAspectRatio ==
    /\ UserCanAct(isExporting)
    /\ \E ar \in AppAspectRatios : aspectRatio' = ar
    /\ UNCHANGED appVars
    /\ UNCHANGED <<slides, targetWidth, targetHeight, env>>
    /\ ExportLocalsUnchanged
    /\ UNCHANGED serviceVars

AppInit ==
    /\ TextIdle /\ AnimIdle /\ FrameIdle /\ PlayIdle /\ EncoderIdle /\ BulkIdle /\ CompressIdle
    /\ PreviewIdle /\ EditIdle /\ DragIdle
    /\ AppIdle
    /\ slides \in SlideLists
    /\ aspectRatio = "16:9"
    /\ targetWidth = 1920 /\ targetHeight = 1080
    /\ env \in [mediaRecorder : BOOLEAN, ctx2d : BOOLEAN, brokenDrawThrows : BOOLEAN]
    /\ natural = <<0, 0>>
    /\ pc = "idle"
    /\ width = 0 /\ height = 0 /\ canvasCreated = FALSE
    /\ audioContext = "none"
    /\ recorder = "none" /\ recorderStarts = 0 /\ recorderStops = 0 /\ onstopFired = FALSE
    /\ promise = "none"
    /\ i = 0
    /\ imgState = <<>> /\ sources = <<>> /\ frames = <<>> /\ loopEnded = <<>>
    /\ lastFrame = NoFrame
    /\ elapsed = 0

AppNext ==
    \/ HandleExport
    \/ RendererLoaded
    \/ ExportSettles
    \/ UploadBegin
    \/ UploadEnd
    \/ AppDeleteSlide
    \/ SetAspectRatio
    \/ ExportBegin
    \/ OriginalImageSettles
    \/ ImageSettles
    \/ AnimationFrame
    \/ FramesDone
    \/ RecorderOnStop

SpecApp == AppInit /\ [][AppNext]_vars

\* The App under the scheduling the browser gives: what FairSpec assumes of
\* the export, and a pending import settles, a settled export is handled, an
\* upload ends.
FairSpecApp ==
    /\ AppInit /\ [][AppNext]_vars
    /\ WF_vars(RendererLoaded)
    /\ WF_vars(ExportSettles)
    /\ WF_vars(UploadEnd)
    /\ WF_vars(ExportBegin)
    /\ WF_vars(OriginalImageSettles)
    /\ WF_vars(ImageSettles)
    /\ WF_vars(AnimationFrame)
    /\ WF_vars(FramesDone)
    /\ WF_vars(RecorderOnStop)

(***************************************************************************)
(* PreviewArea: playback of the narration of the active slide, which has   *)
(* audio.  Times are in units of which the narration lasts                 *)
(* NarrationUnits.  A node stopped by stop(), like a node that has played  *)
(* to its end, gets an 'ended' event, delivered as a task of its own.      *)
(***************************************************************************)
NarrationUnits == 4
MaxClock == 6
MaxPendingEnded == 3
SeekValues == {0, 25, 50, 100}

PreviewOthersUnchanged ==
    UNCHANGED <<exportVars, textVars, animVars, frameVars, playVars, encoderVars, bulkVars,
                compressVars, appVars, editVars, dragVars>>

\* Lines 79-90, stopAudio: whether stop() ends a node that was playing.
StopsPlayingNode == sourceRef /\ audible

\* Lines 92-131, playAudio(startOffset), the slide having audio.
playAudio(startOffset) ==
    /\ stoppedEnded' = stoppedEnded + (IF StopsPlayingNode THEN 1 ELSE 0)
                                     + (IF finishedEnded THEN 1 ELSE 0)
    /\ audioOffset' = startOffset
    /\ audible' = (startOffset < NarrationUnits)
    /\ finishedEnded' = (startOffset >= NarrationUnits)
    /\ startTimeRef' = clock - startOffset
    /\ sourceRef' = TRUE
    /\ isPlaying' = TRUE
    /\ animationFrameRef' = TRUE

\* Lines 134-138: the play button while playing.
Pause ==
    /\ isPlaying
    /\ stoppedEnded + 2 <= MaxPendingEnded
    /\ pausedTimeRef' = clock - startTimeRef
    /\ resumePoint' = clock - startTimeRef
    /\ stoppedEnded' = IF StopsPlayingNode THEN stoppedEnded + 1 ELSE stoppedEnded
    /\ sourceRef' = FALSE
    /\ audible' = FALSE
    /\ animationFrameRef' = FALSE
    /\ isPlaying' = FALSE
    /\ UNCHANGED <<clock, previewProgress, startTimeRef, audioOffset, finishedEnded, staleDelivered>>
    /\ PreviewOthersUnchanged

\* Lines 139-141: the play button while not playing.
Resume ==
    /\ ~isPlaying
    /\ stoppedEnded + 2 <= MaxPendingEnded
    /\ playAudio(pausedTimeRef)
    /\ resumePoint' = 0 - 1
    /\ UNCHANGED <<clock, previewProgress, pausedTimeRef, staleDelivered>>
    /\ PreviewOthersUnchanged

\* Lines 144-152, handleSeek.
Seek ==
    /\ stoppedEnded + 2 <= MaxPendingEnded
    /\ \E newVal \in SeekValues :
          LET newTime == (newVal * NarrationUnits) \div 100
          IN  /\ previewProgress' = newVal
              /\ pausedTimeRef' = newTime
              /\ IF isPlaying
                 THEN playAudio(newTime) /\ resumePoint' = 0 - 1
                 ELSE /\ resumePoint' = newTime
                      /\ UNCHANGED <<isPlaying, startTimeRef, sourceRef, animationFrameRef,
                                     audible, audioOffset, stoppedEnded, finishedEnded>>
    /\ UNCHANGED <<clock, staleDelivered>>
    /\ PreviewOthersUnchanged

\* Lines 120-128, updateLoop, called for an animation frame.
UpdateLoop ==
    /\ animationFrameRef
    /\ previewProgress' = (Min(Max(clock - startTimeRef, 0), NarrationUnits) * 100) \div NarrationUnits
    /\ animationFrameRef' = (clock - startTimeRef < NarrationUnits)
    /\ UNCHANGED <<clock, isPlaying, pausedTimeRef, startTimeRef, sourceRef, audible, audioOffset,
                   stoppedEnded, finishedEnded, resumePoint, staleDelivered>>
    /\ PreviewOthersUnchanged

\* Lines 106-111, source.onended.
onended ==
    /\ isPlaying' = FALSE
    /\ animationFrameRef' = FALSE
    /\ pausedTimeRef' = 0
    /\ previewProgress' = 100

\* The 'ended' event of a node that was stopped or replaced is delivered.
StoppedNodeEnded ==
    /\ stoppedEnded > 0
    /\ stoppedEnded' = stoppedEnded - 1
    /\ onended
    /\ staleDelivered' = TRUE
    /\ UNCHANGED <<clock, startTimeRef, sourceRef, audible, audioOffset, finishedEnded, resumePoint>>
    /\ PreviewOthersUnchanged

\* The 'ended' event of the latest node, which played to its end, is delivered.
FinishedNodeEnded ==
    /\ finishedEnded
    /\ finishedEnded' = FALSE
    /\ onended
    /\ resumePoint' = 0 - 1
    /\ UNCHANGED <<clock, startTimeRef, sourceRef, audible, audioOffset, stoppedEnded, staleDelivered>>
    /\ PreviewOthersUnchanged

\* Time passes; a node that reaches the end of its buffer stops playing.
Tick ==
    /\ clock < MaxClock
    /\ clock' = clock + 1
    /\ IF audible /\ clock + 1 - startTimeRef >= NarrationUnits
       THEN audible' = FALSE /\ finishedEnded' = TRUE
       ELSE UNCHANGED <<audible, finishedEnded>>
    /\ UNCHANGED <<isPlaying, previewProgress, pausedTimeRef, startTimeRef, sourceRef,
                   animationFrameRef, audioOffset, stoppedEnded, resumePoint, staleDelivered>>
    /\ PreviewOthersUnchanged

PreviewInit ==
    /\ ExportIdle /\ TextIdle /\ AnimIdle /\ FrameIdle /\ PlayIdle /\ EncoderIdle /\ BulkIdle
    /\ CompressIdle /\ AppIdle /\ EditIdle /\ DragIdle
    /\ PreviewIdle

PreviewNext ==
    \/ Pause
    \/ Resume
    \/ Seek
    \/ UpdateLoop
    \/ StoppedNodeEnded
    \/ FinishedNodeEnded
    \/ Tick

SpecPreview == PreviewInit /\ [][PreviewNext]_vars

(***************************************************************************)
(* App.tsx and EditorPanel: the slide list, the active slide, the selected *)
(* slides, the selected element, and one animation detection in flight.    *)
(* Slide ids (Math.random, lines 82 and 99) and element ids are fresh.     *)
(***************************************************************************)
MaxSlideIds == 3
MaxElementIds == 2
MaxDetected == 2

EditOthersUnchanged ==
    UNCHANGED <<exportVars, textVars, animVars, frameVars, playVars, encoderVars, bulkVars,
                compressVars, appVars, previewVars, dragVars>>

Ids(list) == {list[k].id : k \in DOMAIN list}
IdSeq(list) == [k \in DOMAIN list |-> list[k].id]
FreshSlides(first, n) == [k \in 1..n |-> [id |-> first + k - 1, visualElements |-> {}]]
WithoutSlide(list, id) == SelectSeq(list, LAMBDA sl : sl.id # id)
WithoutId(ids, id) == SelectSeq(ids, LAMBDA sid : sid # id)

\* Lines 59-62: the effect that runs when activeSlideId has changed.
AfterActiveChange(before, after, selected) == IF after # before THEN 0 ELSE selected

\* Lines 110-114: the active slide after newSlides were appended to prev.
ActiveAfterUpload(active, prev, newSlides) ==
    IF Len(prev) = 0 /\ Len(newSlides) > 0 THEN newSlides[1].id ELSE active

ActiveAfterDeleteKept(active, id, filtered) == active

\* Line 131: the active slide after the slide id was filtered out.
ActiveAfterDelete(active, id, filtered) ==
    IF active = id THEN (IF Len(filtered) > 0 THEN filtered[1].id ELSE 0) ELSE active

\* Lines 110-114 of handleFileUpload: the files read become slides.
Upload ==
    /\ \E n \in 0..(MaxSlideIds + 1 - nextSlideId) :
          LET newSlides == FreshSlides(nextSlideId, n)
              active == ActiveAfterUpload(activeSlideId, appSlides, newSlides)
          IN  /\ appSlides' = appSlides \o newSlides
              /\ nextSlideId' = nextSlideId + n
              /\ activeSlideId' = active
              /\ selectedElementId' = AfterActiveChange(activeSlideId, active, selectedElementId)
    /\ UNCHANGED <<selectedSlideIds, animSlideId, nextElementId, lateResponse>>
    /\ EditOthersUnchanged

\* Lines 128-135, deleteSlide(id).
EditDeleteSlide ==
    /\ \E id \in Ids(appSlides) :
          LET filtered == WithoutSlide(appSlides, id)
              active == ActiveAfterDelete(activeSlideId, id, filtered)
          IN  /\ appSlides' = filtered
              /\ activeSlideId' = active
              /\ selectedSlideIds' = WithoutId(selectedSlideIds, id)
              /\ selectedElementId' = AfterActiveChange(activeSlideId, active, selectedElementId)
    /\ UNCHANGED <<animSlideId, nextSlideId, nextElementId, lateResponse>>
    /\ EditOthersUnchanged

\* Line 325: a thumbnail is clicked.
SetActiveSlide ==
    /\ \E id \in Ids(appSlides) :
          /\ activeSlideId' = id
          /\ selectedElementId' = AfterActiveChange(activeSlideId, id, selectedElementId)
    /\ UNCHANGED <<appSlides, selectedSlideIds, animSlideId, nextSlideId, nextElementId,
                   lateResponse>>
    /\ EditOthersUnchanged

\* Lines 137-142, toggleSlideSelection(id).
ToggleSlideSelection ==
    /\ \E id \in Ids(appSlides) :
          selectedSlideIds' =
              IF \E k \in DOMAIN selectedSlideIds : selectedSlideIds[k] = id
              THEN WithoutId(selectedSlideIds, id)
              ELSE Append(selectedSlideIds, id)
    /\ UNCHANGED <<appSlides, activeSlideId, selectedElementId, animSlideId, nextSlideId,
                   nextElementId, lateResponse>>
    /\ EditOthersUnchanged

\* Lines 144-150, handleSelectAll.
SelectAll ==
    /\ selectedSlideIds' =
          IF Len(selectedSlideIds) = Len(appSlides) /\ Len(appSlides) > 0
          THEN <<>>
          ELSE IdSeq(appSlides)
    /\ UNCHANGED <<appSlides, activeSlideId, selectedElementId, animSlideId, nextSlideId,
                   nextElementId, lateResponse>>
    /\ EditOthersUnchanged

ActiveElements ==
    UNION {appSlides[k].visualElements : k \in {j \in DOMAIN appSlides : appSlides[j].id = activeSlideId}}

\* PreviewArea, handleElementMouseDown: an element of the active slide is
\* pressed.
SelectElement ==
    /\ \E el \in ActiveElements : selectedElementId' = el
    /\ UNCHANGED <<appSlides, activeSlideId, selectedSlideIds, animSlideId, nextSlideId,
                   nextElementId, lateResponse>>
    /\ EditOthersUnchanged

\* updateSlide(id, {visualElements}), lines 124-126.
WithElements(list, id, els) ==
    [k \in DOMAIN list |-> IF list[k].id = id THEN [list[k] EXCEPT !.visualElements = els]
                           ELSE list[k]]

\* EditorPanel, removeElement(elId), lines 166-171.
RemoveElement ==
    /\ \E el \in ActiveElements :
          appSlides' = WithElements(appSlides, activeSlideId, ActiveElements \ {el})
    /\ selectedElementId' = 0
    /\ UNCHANGED <<activeSlideId, selectedSlideIds, animSlideId, nextSlideId, nextElementId,
                   lateResponse>>
    /\ EditOthersUnchanged

\* EditorPanel, handleAnimGen, lines 62-66: the request is sent for the slide
\* shown; the button is disabled until it settles (line 371).
AnimGenBegin ==
    /\ animSlideId = 0
    /\ activeSlideId # 0
    /\ animSlideId' = activeSlideId
    /\ UNCHANGED <<appSlides, activeSlideId, selectedSlideIds, selectedElementId, nextSlideId,
                   nextElementId, lateResponse>>
    /\ EditOthersUnchanged

\* Lines 66-81: the request settles with n elements, or fails.
AnimGenSettles ==
    /\ animSlideId # 0
    /\ \E ok \in BOOLEAN, n \in 0..Min(MaxDetected, MaxElementIds + 1 - nextElementId) :
          IF ok
          THEN /\ appSlides' = WithElements(appSlides, animSlideId,
                                             nextElementId..(nextElementId + n - 1))
               /\ selectedElementId' = IF n > 0 THEN nextElementId ELSE 0
               /\ nextElementId' = nextElementId + n
               /\ lateResponse' = (lateResponse \/ animSlideId # activeSlideId)
          ELSE UNCHANGED <<appSlides, selectedElementId, nextElementId, lateResponse>>
    /\ animSlideId' = 0
    /\ UNCHANGED <<activeSlideId, selectedSlideIds, nextSlideId>>
    /\ EditOthersUnchanged

EditInit ==
    /\ ExportIdle /\ TextIdle /\ AnimIdle /\ FrameIdle /\ PlayIdle /\ EncoderIdle /\ BulkIdle
    /\ CompressIdle /\ AppIdle /\ PreviewIdle /\ DragIdle
    /\ EditIdle

EditNext ==
    \/ Upload
    \/ EditDeleteSlide
    \/ SetActiveSlide
    \/ ToggleSlideSelection
    \/ SelectAll
    \/ SelectElement
    \/ RemoveElement
    \/ AnimGenBegin
    \/ AnimGenSettles

SpecEdit == EditInit /\ [][EditNext]_vars

(***************************************************************************)
(* PreviewArea: the selected element is dragged or resized by a corner.    *)
(* Rects and displacements are in percent of the container.                *)
(***************************************************************************)
MinResizedSize == 5
MaxGrabs == 2

DragOthersUnchanged ==
    UNCHANGED <<exportVars, textVars, animVars, frameVars, playVars, encoderVars, bulkVars,
                compressVars, appVars, previewVars, editVars>>

InteractionModes == {"drag", "resize-tl", "resize-tr", "resize-bl", "resize-br"}

\* Lines 207-228: newRect for a displacement of dx and dy percent.
NewRect(mode, start, dx, dy) ==
    LET left == Max(0, Min(start.x + start.w - MinResizedSize, start.x + dx))
        top == Max(0, Min(start.y + start.h - MinResizedSize, start.y + dy))
    IN  CASE mode = "drag" ->
               [start EXCEPT !.x = Max(0, Min(100 - start.w, start.x + dx)),
                             !.y = Max(0, Min(100 - start.h, start.y + dy))]
          [] mode = "resize-br" ->
               [start EXCEPT !.w = Max(MinResizedSize, Min(100 - start.x, start.w + dx)),
                             !.h = Max(MinResizedSize, Min(100 - start.y, start.h + dy))]
          [] mode = "resize-tr" ->
               [x |-> start.x,
                y |-> top,
                w |-> Max(MinResizedSize, Min(100 - start.x, start.w + dx)),
                h |-> Max(MinResizedSize, start.h - (top - start.y))]
          [] mode = "resize-bl" ->
               [x |-> left,
                y |-> start.y,
                w |-> Max(MinResizedSize, start.w - (left - start.x)),
                h |-> Max(MinResizedSize, Min(100 - start.y, start.h + dy))]
          [] mode = "resize-tl" ->
               [x |-> left,
                y |-> top,
                w |-> Max(MinResizedSize, start.w - (left - start.x)),
                h |-> Max(MinResizedSize, start.h - (top - start.y))]

\* The rect conditions of the ingestion.
ValidRect(r) ==
    /\ 0 <= r.x /\ 0 <= r.y
    /\ r.w >= 1 /\ r.h >= 1
    /\ r.x + r.w <= 100 /\ r.y + r.h <= 100

\* Position and size along one axis, and the displacements of the pointer.
Extents == {<<0, 100>>, <<0, 1>>, <<10, 5>>, <<50, 20>>, <<96, 4>>, <<97, 3>>}
Displacements == {0 - 100, 0 - 2, 0, 100}
Rects == {[x |-> a[1], y |-> b[1], w |-> a[2], h |-> b[2]] : a \in Extents, b \in Extents}

\* Lines 162-175, handleElementMouseDown(e, id, mode).
ElementMouseDown ==
    /\ interactionMode = "none"
    /\ grabs < MaxGrabs
    /\ \E mode \in InteractionModes : interactionMode' = mode
    /\ startElementRect' = elementRect
    /\ grabs' = grabs + 1
    /\ UNCHANGED elementRect
    /\ DragOthersUnchanged

\* Lines 185-233, handleGlobalMouseMove, for an element.
GlobalMouseMove ==
    /\ interactionMode # "none"
    /\ \E dx \in Displacements, dy \in Displacements :
          elementRect' = NewRect(interactionMode, startElementRect, dx, dy)
    /\ UNCHANGED <<interactionMode, startElementRect, grabs>>
    /\ DragOthersUnchanged

\* handleGlobalMouseUp.
GlobalMouseUp ==
    /\ interactionMode # "none"
    /\ interactionMode' = "none"
    /\ UNCHANGED <<startElementRect, elementRect, grabs>>
    /\ DragOthersUnchanged

DragInit ==
    /\ ExportIdle /\ TextIdle /\ AnimIdle /\ FrameIdle /\ PlayIdle /\ EncoderIdle /\ BulkIdle
    /\ CompressIdle /\ AppIdle /\ PreviewIdle /\ EditIdle
    /\ interactionMode = "none"
    /\ elementRect \in Rects
    /\ startElementRect = elementRect
    /\ grabs = 0

DragNext == ElementMouseDown \/ GlobalMouseMove \/ GlobalMouseUp

SpecDrag == DragInit /\ [][DragNext]_vars

(***************************************************************************)
(* Properties of exportVideo.                                              *)
(***************************************************************************)
StartedSources == {k \in DOMAIN sources : sources[k] = "started"}

\* C1: during exportVideo at most one narration source is started and not yet
\* stopped, and whenever the source of a later slide exists, the source of
\* every earlier slide has already been stopped.
C1_OneActiveSource ==
    /\ Cardinality(StartedSources) <= 1
    /\ \A k \in DOMAIN sources : \A j \in DOMAIN sources :
          (k < j /\ sources[j] # "none") => sources[k] # "started"

\* Both slides have audio; the first source is stopped, the second is playing.
C1_Witness ==
    /\ Len(slides) = 2
    /\ sources[1] = "stopped"
    /\ sources[2] = "started"

C2_Order ==
    /\ (\E k \in DOMAIN frames : frames[k] > 0) => recorderStarts = 1
    /\ recorderStarts <= 1
    /\ \A j \in DOMAIN frames :
          (frames[j] > 0) => \A k \in DOMAIN frames : k < j => loopEnded[k]
    /\ recorderStops <= 1
    /\ recorderStops = 1 => (recorderStarts = 1 /\ \A k \in DOMAIN loopEnded : loopEnded[k])
    /\ onstopFired => recorderStops = 1
    /\ promise = "resolved" => (onstopFired /\ recorderStops = 1)

C2_FrameStep ==
    \A k \in DOMAIN frames :
        frames'[k] # frames[k] =>
            /\ recorder = "recording"
            /\ recorderStops = 0
            /\ ~loopEnded[k]
            /\ \A m \in DOMAIN frames : m < k => loopEnded[m]
            /\ \A m \in DOMAIN frames : m > k => frames[m] = 0

C3_EventuallyResolves ==
    (recorder = "recording") ~> (promise = "resolved" /\ recorder = "stopped")

\* What holds of the code: the export ends in a browser whose drawImage
\* returns silently for an image that failed to load.
ExportEndsWhenDrawNeverThrows ==
    (recorder = "recording" /\ ~env.brokenDrawThrows) ~> (promise = "resolved")

\* C4: a slide whose image failed to load does not stall the export: the
\* frame loop of that slide is not left without ever ending.
C4_BrokenImageDoesNotStall ==
    \A k \in DOMAIN imgState : imgState[k] = "broken" => pc # "stalled"

\* C10: in the Top and Bottom modes the canvas exportVideo creates is 1920 wide
\* and 1080 high, whatever targetWidth and targetHeight were requested.
C10_SplitCanvasSize ==
    (canvasCreated /\ aspectRatio \in {"Top", "Bottom"}) => (width = 1920 /\ height = 1080)

\* A Bottom export asked for another size has created its canvas.
C10_Witness ==
    /\ canvasCreated
    /\ aspectRatio = "Bottom"
    /\ targetWidth # 1920
    /\ targetHeight # 1080

IsEven(n) == n % 2 = 0

\* C11: in Original mode with at least one slide the canvas width and height
\* are even and at most 1920; they are the natural dimensions rounded down to
\* even when neither exceeds 1920, and otherwise both are those dimensions
\* times min(1920 / w, 1920 / h), floored and rounded down to even.
C11_OriginalCanvasSize ==
    (canvasCreated /\ aspectRatio = "Original" /\ Len(slides) > 0) =>
        LET w0 == natural[1] - (natural[1] % 2)
            h0 == natural[2] - (natural[2] % 2)
            m == IF w0 >= h0 THEN w0 ELSE h0
            ws == (w0 * 1920) \div m
            hs == (h0 * 1920) \div m
        IN  /\ IsEven(width) /\ IsEven(height)
            /\ width <= 1920 /\ height <= 1920
            /\ (w0 <= 1920 /\ h0 <= 1920) => (width = w0 /\ height = h0)
            /\ (w0 > 1920 \/ h0 > 1920) =>
                  (width = ws - (ws % 2) /\ height = hs - (hs % 2))

\* What holds of the code: the canvas is even, at most 1920 in both
\* dimensions, and unscaled when neither rounded dimension exceeds 1920.
OriginalCanvasEvenAndBounded ==
    (canvasCreated /\ aspectRatio = "Original" /\ Len(slides) > 0) =>
        /\ IsEven(width) /\ IsEven(height)
        /\ width <= 1920 /\ height <= 1920
        /\ (natural[1] <= 1920 /\ natural[2] <= 1920) =>
              (width = natural[1] - (natural[1] % 2) /\ height = natural[2] - (natural[2] % 2))

(***************************************************************************)
(* Properties of the chunker.                                              *)
(***************************************************************************)
ValidChunkIndex ==
    lookedUp => IF Len(chunks) = 0 THEN chunkIndex = 0
                ELSE chunkIndex \in 0..(Len(chunks) - 1)

MonotoneLookup ==
    (lookedUp /\ lookedUp' /\ progress <= progress') => chunkIndex <= chunkIndex'

\* C5: for every chunk list and all p1 <= p2, the index for p1 is at most the
\* index for p2 (any lookup may follow any other), and every result is an
\* index of the list, 0 when the list is empty.
C5_MonotoneValidIndex == []ValidChunkIndex /\ [][MonotoneLookup]_vars

\* A lookup strictly inside a list of three chunks gave the middle chunk.
C5_Witness ==
    /\ lookedUp
    /\ Len(chunks) = 3
    /\ chunkIndex = 1
    /\ progress > 0 /\ progress < ProgressDen

\* The cumulative character length of the first k chunks.
CumulativeLength(cs, k) == TotalLength(SubSeq(cs, 1, k))

ChunkLengths == [k \in DOMAIN chunks |-> Len(chunks[k])]

\* C6: for 0 < progress < 1 the result is the first index whose cumulative
\* length is >= progress x total; it is 0 for progress <= 0, the last index
\* for progress >= 1 and 0 for the empty list; chunks of lengths 2 and 8 give
\* index 0 at progress 0.15 and index 1 at progress 0.5.
C6_FirstChunkReachingTarget ==
    lookedUp =>
        /\ Len(chunks) = 0 => chunkIndex = 0
        /\ (Len(chunks) > 0 /\ progress <= 0) => chunkIndex = 0
        /\ (Len(chunks) > 0 /\ progress >= ProgressDen) => chunkIndex = Len(chunks) - 1
        /\ (Len(chunks) > 0 /\ progress > 0 /\ progress < ProgressDen) =>
              /\ chunkIndex \in 0..(Len(chunks) - 1)
              /\ CumulativeLength(chunks, chunkIndex + 1) * ProgressDen
                    >= progress * CumulativeLength(chunks, Len(chunks))
              /\ \A j \in 0..(chunkIndex - 1) :
                    CumulativeLength(chunks, j + 1) * ProgressDen
                        < progress * CumulativeLength(chunks, Len(chunks))
        /\ (ChunkLengths = <<2, 8>> /\ progress * 20 = 3 * ProgressDen) => chunkIndex = 0
        /\ (ChunkLengths = <<2, 8>> /\ progress * 2 = ProgressDen) => chunkIndex = 1

\* Chunks of lengths 2 and 8 were looked up at progress 0.5.
C6_Witness ==
    /\ lookedUp
    /\ ChunkLengths = <<2, 8>>
    /\ progress * 2 = ProgressDen
    /\ chunkIndex = 1

\* The positions of text that hold a character other than white space.
InkPositions == {p \in 1..Len(text) : text[p] \notin WhiteSpace}
\* The number of the line position p lies on: the line breaks before it.
LineOf(p) == Cardinality({q \in 1..(p - 1) : text[q] = NewLine})
InkLines == {LineOf(p) : p \in InkPositions}
\* The n-th line that holds a character other than white space, from its
\* first such character to its last.
ExpectedChunk(n) ==
    LET line == CHOOSE l \in InkLines : Cardinality({m \in InkLines : m < l}) = n - 1
        ink == {p \in InkPositions : LineOf(p) = line}
        first == CHOOSE p \in ink : \A q \in ink : p <= q
        last == CHOOSE p \in ink : \A q \in ink : p >= q
    IN  SubSeq(text, first, last)

\* C7: splitTextIntoChunks returns the lines of the input that are not blank,
\* in their order, each without its leading and trailing white space; no chunk
\* is empty or begins or ends with white space; maxChars does not change the
\* result.
C7_TrimmedNonEmptyLines ==
    splitDone =>
        /\ Len(chunks) = Cardinality(InkLines)
        /\ \A n \in DOMAIN chunks : chunks[n] = ExpectedChunk(n)
        /\ \A n \in DOMAIN chunks :
              /\ chunks[n] # <<>>
              /\ chunks[n][1] \notin WhiteSpace
              /\ chunks[n][Len(chunks[n])] \notin WhiteSpace
        /\ \A m \in MaxCharsChoices : splitTextIntoChunks(text, m) = chunks

\* A text with surrounding white space and a blank line gave two chunks, the
\* first of them longer than maxChars.
C7_Witness ==
    /\ splitDone
    /\ Len(text) = MaxTextLen
    /\ text[1] = " "
    /\ \E p \in 1..(Len(text) - 1) : text[p] = NewLine /\ text[p + 1] = NewLine
    /\ Len(chunks) = 2
    /\ Len(chunks[1]) > maxChars
    /\ chunks[1] # chunks[2]

(***************************************************************************)
(* Properties of generateSlideAnimations.                                  *)
(***************************************************************************)
\* The elements of the response that are stored, in the order of stored.
StoredFrom == SelectSeq(response.elements, KeptElement)

InClaimedRange(v) == v.kind = "number" /\ v.val >= 0 - 50 /\ v.val <= 150

\* C8: every element sent with rect coordinates and sizes in [-50, 150] is
\* stored with 0 <= x <= 100, w >= 1, x + w <= 100, and the same for y and h.
C8_StoredRectInsideImage ==
    ingested =>
        \A k \in DOMAIN stored :
            LET raw == StoredFrom[k].rect
                r == stored[k].rect
            IN  (InClaimedRange(raw.x) /\ InClaimedRange(raw.y)
                 /\ InClaimedRange(raw.w) /\ InClaimedRange(raw.h)) =>
                    /\ r.x.kind = "number" /\ r.w.kind = "number"
                    /\ r.y.kind = "number" /\ r.h.kind = "number"
                    /\ 0 <= r.x.val /\ r.x.val <= 100
                    /\ r.w.val >= 1 /\ r.x.val + r.w.val <= 100
                    /\ 0 <= r.y.val /\ r.y.val <= 100
                    /\ r.h.val >= 1 /\ r.y.val + r.h.val <= 100

\* C9: every stored element has startTime in [0, 1], a duration greater than 0
\* and an animation of AnimationType, whatever the service sent.
C9_StoredFieldsValidated ==
    ingested =>
        \A k \in DOMAIN stored :
            /\ stored[k].startTime.kind = "number"
            /\ stored[k].startTime.val >= 0 /\ stored[k].startTime.val <= 10
            /\ stored[k].duration.kind = "number"
            /\ stored[k].duration.val > 0
            /\ stored[k].animation \in AnimationType

(***************************************************************************)
(* Properties of drawFrame.                                                *)
(***************************************************************************)
OpsOf(what) == {k \in DOMAIN ops : ops[k].what = what}
TextOps == {k \in DOMAIN ops : ops[k].op \in {"strokeText", "fillText"}}
SubtitleOps == {k \in DOMAIN ops : ops[k].what \in {"background", "outline", "subtitle"}}

\* C12: in Top mode the image gets the lower 80% of the canvas height and the
\* subtitle is drawn at 10% of it, in Bottom mode the image gets the upper 80%
\* and the subtitle is drawn at 90%, whatever subtitleStyle.verticalPosition
\* is; in every other mode the subtitle is drawn at height * verticalPosition
\* / 100.
C12_SplitLayoutPositions ==
    drawn =>
        LET h == canvas.height
            top == isTopLayout(canvas.aspectRatio)
            bottom == isBottomLayout(canvas.aspectRatio)
        IN  /\ \A k \in OpsOf("base") :
                 /\ top => ops[k].y = h * 20 /\ ops[k].y + ops[k].h = h * 100
                 /\ bottom => ops[k].y = 0 /\ ops[k].h = h * 80
            /\ \A k \in SubtitleOps :
                 /\ top => ops[k].y = h * 10
                 /\ bottom => ops[k].y = h * 90
                 /\ (top \/ bottom) =>
                       \A v \in 0..100 :
                          ops[k].y = TextY(canvas, [subtitleStyle EXCEPT !.verticalPosition = v])
                 /\ ~(top \/ bottom) => ops[k].y = h * subtitleStyle.verticalPosition

C12_Witness ==
    /\ drawn
    /\ isTopLayout(canvas.aspectRatio)
    /\ subtitleStyle.verticalPosition = 85
    /\ OpsOf("base") # {}
    /\ OpsOf("subtitle") # {}

\* The chunks of the slide's script and the one in step with the progress.
ScriptChunks == splitTextIntoChunks(frameSlide.script, DefaultMaxChars)
SyncedChunk ==
    IF ScriptChunks = <<>> THEN <<>>
    ELSE ScriptChunks[getChunkIndexByCharacterCount(ScriptChunks, frameProgress) + 1]

\* The text the priority gives.
ChosenText ==
    IF ~frameSlide.hasAudio THEN frameSlide.subtitle
    ELSE IF SyncedChunk # <<>> THEN SyncedChunk
    ELSE frameSlide.subtitle

\* C15: the subtitle text of a frame is the script chunk in step with the
\* progress when the slide has narration audio, the slide's static subtitle
\* when it has none, and the static subtitle when it has narration audio but
\* the chunk in step is empty; nothing is drawn for the subtitle when
\* subtitles are disabled or that text is empty.
C15_SubtitleSource ==
    drawn =>
        IF includeSubtitles /\ ChosenText # <<>>
        THEN /\ Cardinality(OpsOf("subtitle")) = 1
             /\ \A k \in TextOps : ops[k].text = ChosenText
        ELSE SubtitleOps = {}

C15_Witness ==
    /\ drawn
    /\ frameSlide.hasAudio
    /\ frameSlide.subtitle = <<"s">>
    /\ frameProgress = ProgressDen
    /\ \E k \in OpsOf("subtitle") : ops[k].text = <<"b">>

HasBackground == OpsOf("background") # {}
HasOutline == OpsOf("outline") # {}

\* C16, as stated: a frame with a subtitle gets exactly one of the two
\* treatments, the outline and no background rectangle when the background
\* opacity is below 0.3, the rectangle and no outline when it is 0.3 or more.
C16_ExactlyOneTreatment ==
    (drawn /\ OpsOf("subtitle") # {}) =>
        /\ subtitleStyle.backgroundOpacity < 30 => (HasOutline /\ ~HasBackground)
        /\ subtitleStyle.backgroundOpacity >= 30 => (HasBackground /\ ~HasOutline)

\* C16, amended: a frame with a subtitle gets the outline exactly when the
\* background opacity is below 0.3 and the background rectangle exactly when
\* it is above 0; so it gets both between 0 and 0.3, the outline alone at 0
\* and the rectangle alone from 0.3 on.
C16_OutlineBelowThresholdRectangleAboveZero ==
    (drawn /\ OpsOf("subtitle") # {}) =>
        /\ HasOutline <=> subtitleStyle.backgroundOpacity < 30
        /\ HasBackground <=> subtitleStyle.backgroundOpacity > 0
        /\ Cardinality(OpsOf("outline")) <= 1
        /\ Cardinality(OpsOf("background")) <= 1

C16_Witness ==
    /\ drawn
    /\ OpsOf("subtitle") # {}
    /\ subtitleStyle.backgroundOpacity = 20
    /\ HasOutline /\ HasBackground

\* C17: the operations of a frame, with the settings each runs under, are
\* those drawFrame issues for the same slide, progress, style and layout on a
\* context nothing was drawn on before: no setting a previous frame changed
\* is in effect.
C17_FrameIsFunctionOfInputs ==
    drawn =>
        ops = DrawFrameOps(FreshCtx, canvas, subtitleStyle, includeSubtitles,
                           frameSlide, frameProgress).ops

\* What ctx.save() and ctx.restore() do keep from one frame to the next:
\* alpha, filter and transform are the initial ones when a frame starts.
OverlaySettingsRestored ==
    /\ ctx.globalAlpha = FreshCtx.globalAlpha
    /\ ctx.filter = FreshCtx.filter
    /\ ctx.transform = FreshCtx.transform

(***************************************************************************)
(* Properties of the animation of an element.                              *)
(***************************************************************************)
\* The value the element's progress has by the formula, for a slide that
\* lasts seconds = ms / 1000: clamp(max(0, (p - startTime) * seconds) /
\* duration, 0, 1), as numerator over ProgressDen * durationMs.
ClampedProgress(ms) ==
    LET d == ProgressDen * element.durationMs
        localElapsed == Max(0, (playbackProgress - element.startTime) * ms)
    IN  IF localElapsed >= d THEN <<d, d>> ELSE <<localElapsed, d>>

ElementState ==
    /\ exported.active = (playbackProgress >= element.startTime)
    /\ previewed.active = (playbackProgress >= element.startTime)
    /\ exported.animProgress = ClampedProgress(Duration(playSlide))
    /\ previewed.animProgress = ClampedProgress(PreviewDuration(playSlide))

ElementStep ==
    (evaluated /\ playbackProgress <= playbackProgress') =>
        /\ exported.active => exported'.active
        /\ previewed.active => previewed'.active
        /\ exported.animProgress[1] <= exported'.animProgress[1]
        /\ previewed.animProgress[1] <= previewed'.animProgress[1]
        /\ IsOne(exported.animProgress) => IsOne(exported'.animProgress)
        /\ IsOne(previewed.animProgress) => IsOne(previewed'.animProgress)

Fades == element.animation \in {"fadeIn", "zoomIn", "slideUp"}

\* The element of the example: fadeIn, startTime 0.2, duration 1.0 s, on a
\* slide whose narration lasts 5 s.
IsExample ==
    /\ element.animation = "fadeIn"
    /\ 5 * element.startTime = ProgressDen
    /\ element.durationMs = 1000
    /\ playSlide = [hasAudio |-> TRUE, audioMs |-> 5000]

Supports(t) == t \in browser.supported

\* C18: the type returned is vp9 if supported, else vp8 if supported, else
\* plain webm if supported, else none (the platform default); the function
\* throws only when MediaRecorder does not exist, and then always.
C18_FirstSupportedPreferredType ==
    /\ encoderPc = "thrown" => ~browser.mediaRecorder
    /\ encoderPc = "returned" =>
          /\ browser.mediaRecorder
          /\ recorderOptions.mimeType =
                IF Supports("video/webm;codecs=vp9") THEN "video/webm;codecs=vp9"
                ELSE IF Supports("video/webm;codecs=vp8") THEN "video/webm;codecs=vp8"
                ELSE IF Supports("video/webm") THEN "video/webm"
                ELSE NULL

C18_Witness ==
    /\ encoderPc = "returned"
    /\ browser.supported = {"video/webm;codecs=vp8", "video/webm", "video/mp4"}
    /\ recorderOptions.mimeType = "video/webm;codecs=vp8"

(***************************************************************************)
(* Properties of the bulk handlers.                                        *)
(***************************************************************************)
Attempted(id) == \E k \in DOMAIN attempts : attempts[k] = id
PositionIn(list, id) == CHOOSE k \in DOMAIN list : list[k] = id

\* The slides the handler has to send a request for: the targets that still
\* exist and, for audio, have a script to speak.
ToAttempt ==
    {targetIds[k] : k \in DOMAIN targetIds} \cap
        {id \in SlideIds :
            /\ deck[id].present
            /\ batchKind = "audio" => deck[id].script \in {"text", "error"}}

\* C19: when a bulk handler ends, a request was sent for every target slide,
\* once and in the order of the targets, however many of the requests failed;
\* and when the audio handler ends no target has isGeneratingAudio = true.
C19_BatchContinuesPastFailures ==
    bulkPc = "done" =>
        /\ \A id \in ToAttempt : Attempted(id)
        /\ \A a, b \in DOMAIN attempts :
              a < b => PositionIn(targetIds, attempts[a]) < PositionIn(targetIds, attempts[b])
        /\ \A k \in DOMAIN attempts : \E j \in DOMAIN targetIds : targetIds[j] = attempts[k]
        /\ batchKind = "audio" =>
              \A k \in DOMAIN targetIds : ~deck[targetIds[k]].isGeneratingAudio

C19_Witness ==
    /\ bulkPc = "done"
    /\ batchKind = "audio"
    /\ Len(attempts) = 3
    /\ attempts[1] \in failed
    /\ deck[attempts[3]].hasAudio

(***************************************************************************)
(* Properties of compressImageBase64ForApi.                                *)
(***************************************************************************)
\* C20: an image compressImageBase64ForApi returns is never estimated above
\* 1,500,000 bytes: a call returns an image within the limit or throws.
C20_NeverReturnsOversized ==
    compressPc = "returned" => estimateBase64Bytes(returned) <= 1500000

\* With a 2D context the image returned is within the limit.
ReturnsWithinLimitWithContext ==
    (compressPc = "returned" /\ hasContext) => estimateBase64Bytes(returned) <= 1500000

(***************************************************************************)
(* Properties of handleExport.                                             *)
(***************************************************************************)
ExportFailed == handlerPc = "exporting" /\ (promise = "rejected" \/ pc = "stalled")

\* C21: a failure during an export (no encoder, no canvas context, an error
\* while a frame is drawn) ends the export: handleExport shows one failure
\* message and sets isExporting to false; an export that has started does not
\* stay pending with isExporting true.
C21_FailureAbortsExport ==
    /\ [](failureAlerts <= 1)
    /\ (handlerPc = "exporting") ~> (handlerPc = "idle" /\ ~isExporting)

\* What holds of the failures exportVideo reports by rejecting: one alert,
\* isExporting false.
RejectionIsReported ==
    [][(handlerPc = "exporting" /\ promise = "rejected" /\ handlerPc' = "idle") =>
          (failureAlerts' = 1 /\ ~isExporting')]_vars

\* C22: at most one exportVideo call is in progress, and isExporting is true
\* as long as one is; an export starts only while isExporting is false.
C22_OneExportAtATime ==
    /\ [](inProgress <= 1)
    /\ [](inProgress = 1 => isExporting)
    /\ [][HandleExport => ~isExporting]_vars

C22_Witness ==
    /\ inProgress = 1
    /\ isExporting
    /\ pc = "await_frame"
    /\ Len(slides) = 2

(***************************************************************************)
(* Properties of the downscale loop of compressImageBase64ForApi.          *)
(***************************************************************************)
\* C23: the downscale loop terminates for every starting size: each round
\* makes the width and the height strictly smaller, neither goes below its
\* floor (480 wide, 270 high), the loop runs only while both are above their
\* floors, so the re-encodes are bounded (the width after n rounds is at
\* most (4/5)^n of the first width, which is at most maxDim) and the function
\* ends.
C23_DownscaleTerminates ==
    /\ [][ScaleStep =>
            /\ scaledWidth > MinWidth /\ scaledHeight > MinHeight
            /\ scaledWidth' < scaledWidth /\ scaledHeight' < scaledHeight
            /\ scaledWidth' >= MinWidth /\ scaledHeight' >= MinHeight]_vars
    /\ [](rounds > 0 =>
             \/ scaledWidth = MinWidth
             \/ scaledWidth * 5^rounds
                    <= FirstSize(imageInput.width, imageInput.height)[1] * 4^rounds)
    /\ [](MinWidth * 5^rounds <= maxDim * 4^rounds \/ MinWidth * 5^(rounds - 1) <= maxDim * 4^(rounds - 1))
    /\ <>(compressPc \in {"returned", "thrown"})

C23_Witness ==
    /\ compressPc = "thrown"
    /\ rounds >= 3
    /\ scaledWidth = MinWidth
    /\ scaledHeight > MinHeight

(***************************************************************************)
(* Properties of the frames of one slide.                                  *)
(***************************************************************************)
LastDuration == Duration(slides[lastFrame.slide])

\* The progress of the latest frame is elapsed / duration clamped to [0, 1],
\* the duration being the narration's or 3 s.
ClampedFrameProgress ==
    lastFrame.slide > 0 =>
        /\ LastDuration = IF slides[lastFrame.slide].hasAudio
                          THEN slides[lastFrame.slide].audioMs ELSE DefaultDurationMs
        /\ lastFrame.progress[2] = LastDuration
        /\ lastFrame.progress[1] >= 0 /\ lastFrame.progress[1] <= lastFrame.progress[2]
        /\ lastFrame.elapsed <= LastDuration => lastFrame.progress[1] = lastFrame.elapsed
        /\ lastFrame.elapsed >= LastDuration => lastFrame.progress[1] = lastFrame.progress[2]

\* Within a slide the progress of a frame is not below that of the frame before.
ProgressNeverDecreases ==
    (lastFrame.slide > 0 /\ lastFrame'.slide = lastFrame.slide)
        => lastFrame'.progress[1] >= lastFrame.progress[1]

\* A frame at or after the duration is the last frame of its slide.
NoFrameAfterDuration ==
    (lastFrame.slide > 0 /\ lastFrame.elapsed >= LastDuration /\ lastFrame' # lastFrame)
        => lastFrame'.slide # lastFrame.slide

\* A slide whose frames have begun has a frame drawn.
SlideHasFrame(k) == frames[k] >= 1

\* The slides whose first call of drawFrame has been made.
FramesBegun == {k \in DOMAIN slides : k < i \/ (k = i /\ pc # "await_image")}

\* C24: within one slide, with duration = narration duration or 3 s, each
\* frame uses progress = clamp(elapsed / duration, 0, 1); the progress never
\* decreases; at least one frame is drawn; another frame is scheduled exactly
\* while elapsed < duration; the last frame of the slide is the first one with
\* elapsed >= duration and is drawn at progress 1.
C24_FrameSchedule ==
    /\ []ClampedFrameProgress
    /\ [][ProgressNeverDecreases /\ NoFrameAfterDuration]_vars
    /\ [](\A k \in FramesBegun : SlideHasFrame(k))
    /\ [](lastFrame.slide > 0 => (lastFrame.scheduled <=> lastFrame.elapsed < LastDuration))
    /\ [](lastFrame.slide > 0 /\ ~lastFrame.scheduled =>
             /\ lastFrame.elapsed >= LastDuration
             /\ lastFrame.progress[1] = lastFrame.progress[2])

\* What holds of the frames whose drawing does not throw.
FrameScheduleWhenDrawCompletes ==
    /\ []ClampedFrameProgress
    /\ [][ProgressNeverDecreases /\ NoFrameAfterDuration]_vars
    /\ [](\A k \in FramesBegun : (k # i \/ ~lastFrame.threw) => SlideHasFrame(k))
    /\ [](lastFrame.slide > 0 /\ ~lastFrame.threw =>
             (lastFrame.scheduled <=> lastFrame.elapsed < LastDuration))
    /\ [](lastFrame.slide > 0 /\ ~lastFrame.threw /\ ~lastFrame.scheduled =>
             /\ lastFrame.elapsed >= LastDuration
             /\ lastFrame.progress[1] = lastFrame.progress[2]
             /\ loopEnded[lastFrame.slide])

(***************************************************************************)
(* Properties of the preview's playback.                                   *)
(***************************************************************************)
\* The play button resumes a narration paused (or sought while paused) at
\* resumePoint from there.
ResumesAtPause == (Resume /\ resumePoint >= 0) => audioOffset' = resumePoint

\* While the narration is heard the preview shows it as playing and tracks
\* its progress from where the source was started.
TracksWhatPlays ==
    audible => /\ isPlaying
               /\ animationFrameRef
               /\ startTimeRef + audioOffset <= clock

\* C25: pausing and then resuming starts the audio at the offset at which it
\* was paused, and seeking while playing continues playback and progress
\* tracking from the sought position, in whatever order the 'ended' callback
\* of the node just stopped is delivered.
C25_PauseResumeSeek ==
    /\ [][ResumesAtPause]_vars
    /\ []TracksWhatPlays

\* What holds as long as no 'ended' event of a node stopped or replaced has
\* been delivered.
PauseResumeSeekWithoutStaleEnded ==
    /\ [][~staleDelivered' => ResumesAtPause]_vars
    /\ [](~staleDelivered => TracksWhatPlays)

(***************************************************************************)
(* Properties of the selections.                                           *)
(***************************************************************************)
SelectedElementOfActiveSlide == selectedElementId = 0 \/ selectedElementId \in ActiveElements

\* C26: selectedElementId is null or the id of an element of the active
\* slide, also when the active slide is changed or deleted while a detection
\* started by handleAnimGen is in flight.
C26_SelectedElementOfActiveSlide == SelectedElementOfActiveSlide

\* What holds as long as no detection has settled for a slide other than the
\* active one.
SelectedElementValidWithoutLateResponse == ~lateResponse => SelectedElementOfActiveSlide

\* C29: selectedSlideIds holds only ids of existing slides, none twice;
\* activeSlideId is the id of an existing slide when there are slides and
\* empty when there are none.
C29_SelectionsConsistent ==
    /\ \A k \in DOMAIN selectedSlideIds : selectedSlideIds[k] \in Ids(appSlides)
    /\ \A j, k \in DOMAIN selectedSlideIds : selectedSlideIds[j] = selectedSlideIds[k] => j = k
    /\ Len(appSlides) > 0 => activeSlideId \in Ids(appSlides)
    /\ Len(appSlides) = 0 => activeSlideId = 0

\* The active slide and a selected slide were deleted, slides and a selection
\* remain.
C29_Witness ==
    /\ nextSlideId = MaxSlideIds + 1
    /\ Len(appSlides) = 1
    /\ activeSlideId = appSlides[1].id
    /\ activeSlideId # 1
    /\ Len(selectedSlideIds) = 1

(***************************************************************************)
(* Properties of dragging and resizing.                                    *)
(***************************************************************************)
\* C27: every drag step and every corner-resize step, for any displacement
\* of the pointer, turns a rect with 0 <= x, 0 <= y, w >= 1, h >= 1,
\* x + w <= 100, y + h <= 100 into a rect with the same properties.
C27_StepsPreserveRect ==
    [][(GlobalMouseMove /\ ValidRect(startElementRect)) => ValidRect(elementRect')]_vars

\* What holds of the rects that are at least 5 wide and 5 high.
StepsPreserveLargeRect ==
    [][(/\ GlobalMouseMove
        /\ ValidRect(startElementRect)
        /\ startElementRect.w >= MinResizedSize
        /\ startElementRect.h >= MinResizedSize)
          => (/\ ValidRect(elementRect')
              /\ elementRect'.w >= MinResizedSize
              /\ elementRect'.h >= MinResizedSize)]_vars

(***************************************************************************)
(* Properties of the exporter's audio resources.                           *)
(***************************************************************************)
AudioReleased ==
    /\ audioContext # "running"
    /\ \A k \in DOMAIN sources : sources[k] # "started"

\* C28: every audio resource exportVideo acquires is released on every exit
\* path: when the export completes, and when it ends early because the
\* encoder setup throws or a frame draw fails, the AudioContext is closed and
\* every started narration source is stopped.
C28_AudioReleasedOnEveryExit == pc \in {"done", "stalled"} => AudioReleased

\* What holds of the export that completes.
AudioReleasedOnCompletion ==
    promise = "resolved" =>
        /\ audioContext = "closed"
        /\ \A k \in DOMAIN sources : sources[k] # "started"
        /\ \A k \in DOMAIN sources : slides[k].hasAudio => sources[k] = "stopped"

(***************************************************************************)
(* The subtitle of the preview and the subtitle of the exported frame.     *)
(***************************************************************************)
\* part_005 line 434: what the preview shows for the slide and the progress
\* of the frame; the empty text is no subtitle.
PreviewShows ==
    IF includeSubtitles THEN displaySubtitle(frameSlide, frameProgress) ELSE <<>>

\* The subtitle text the frame has, the empty text if it has none.
ExportShows ==
    IF OpsOf("subtitle") = {} THEN <<>>
    ELSE ops[CHOOSE k \in OpsOf("subtitle") : TRUE].text

\* C30: for every slide, progress and subtitles setting the preview and the
\* exporter select the same subtitle text, and show no subtitle in the same
\* cases.
C30_PreviewAndExportSameSubtitle == drawn => PreviewShows = ExportShows

\* What holds unless the slide has no audio, no static subtitle and a script.
SameSubtitleWithAudioOrSavedSubtitle ==
    (drawn /\ (frameSlide.hasAudio \/ frameSlide.subtitle # <<>>
                 \/ splitTextIntoChunks(frameSlide.script, DefaultMaxChars) = <<>>))
        => PreviewShows = ExportShows

====
